---- MODULE Spec2Model ----
(***************************************************************************)
(* A model of the retrieval-augmented question answering pipeline of      *)
(* bun-vector-mcp: the context builder, the ask/stream orchestrator with   *)
(* its HTTP streaming consumer, the cached, retried embedding call and     *)
(* withRetry on its own, directory ingestion, the searchSimilar that       *)
(* expands the query and fuses, deduplicates and reranks the results, the  *)
(* chunkers, and the vector serializers.                                   *)
(*                                                                         *)
(* Representation.  A chunk text is represented by its length (the context *)
(* builder only measures and cuts texts).  A JavaScript number that may be *)
(* fractional (topK, the similarity threshold, a cosine similarity) is     *)
(* represented in halves: the integer n stands for n/2.  A hybrid score is *)
(* held in twentieths, a reranked score in six-hundredths, a fused score   *)
(* as a numerator over a common denominator.                               *)
(***************************************************************************)
EXTENDS Integers, Sequences, FiniteSets, TLC

VARIABLES
    \* ---- context builder (services/rag.ts buildContext)
    searchResults,   \* the argument of buildContext: what searchSimilar returned
    ctxPc,           \* "ready" | "built"
    ctxOut,          \* the value buildContext returned
    \* ---- one request to askQuestion / streamQuestion / searchSimilar
    mode,            \* "ask" | "stream" | "search"
    question,        \* the query string: [len, nonWs] (its length, its non-blank characters)
    topK,            \* in halves
    minSimilarity,   \* in halves
    db,              \* the rows getAllDocuments returns
    pc,              \* where the request is
    searched,        \* searchSimilar has returned
    events,          \* the StreamEvents streamQuestion has yielded, in order
    pending,         \* the last event is yielded and not yet taken by the consumer
    raised,          \* the error class thrown to the caller, or "none"
    answer,          \* what askQuestion returned
    storeCalls,      \* calls of getAllDocuments
    embedCalls,      \* calls of generateEmbedding
    genCalls,        \* calls of generateAnswer / streamAnswer
    fragRequests,    \* fragments requested from streamAnswer
    \* ---- the /ask/stream handler (scripts/feed.ts) consuming streamQuestion
    clientGone,      \* the HTTP client has abandoned the response
    sse,             \* the events enqueued on the response stream
    http,            \* "open" | "closed" | "failed"
    \* ---- generateEmbedding and its module state (services/embeddings.ts)
    aiProvider,      \* the provider handle is initialised
    embeddingCache,  \* the cached texts of this run, each with the normalize
                     \* flag its stored vector was computed under
    cacheOther,      \* the number of further entries of the cache
    calls,           \* the generateEmbedding calls in flight, by caller
    (* ingestDirectory *)
    dirFiles,        \* what the glob scan finds: for each file, how ingestFile
                     \* on it ends
    ingPc,           \* position of ingestDirectory
    ingResults,      \* its results array
    attempted,       \* the positions of the files ingestFile was called on
    (* the searchSimilar that expands the query, fuses, deduplicates, reranks *)
    enhQuery,        \* the query, as its words
    enhTopK,         \* topK
    enhMinSimilarity,\* minSimilarity, in six-hundredths
    providerType,    \* PROVIDER_TYPE
    enhDocs,         \* the rows getAllDocuments returns
    enhPc,           \* position of searchSimilar
    variations,      \* what expandQuery returned
    resultSets,      \* the result lists of the variations searched so far
    enhResults,      \* what searchSimilar returned
    enhRaised,       \* what searchSimilar threw
    (* a call of a function that keeps no state *)
    callPc,          \* "ready" before the call, "returned" after it
    callArgs,        \* the arguments
    callResult,      \* the value returned
    (* one call of withRetry *)
    rtAllow,         \* config.retryableErrors: the error classes of the
                     \* allow-list, {"any"} when the call gives none
    rtPc,            \* position of withRetry
    rtAttempt,       \* attempt
    rtDelayMs,       \* delayMs
    rtOutcomes,      \* how the invocations of fn ended, in order
    rtInvocations,   \* the number of times fn was invoked
    rtWaits,         \* the number of backoff timers that were set
    (* the two tables of the database (db/schema.ts) *)
    documentsTable,  \* the ids of the rows of documents
    vecTable,        \* the document_id values of the rows of vec_embeddings
    rowidSeq,        \* the last id AUTOINCREMENT gave out
    (* the transformers pipeline of the embeddings module *)
    embeddingPipeline, \* the module's embeddingPipeline is set
    pipelineCache,   \* global.__EMBEDDING_PIPELINE_CACHE is set
    initCalls,       \* the calls in flight that initialise, by caller
    loadsStarted     \* the number of times pipeline() was called

ctxVars == <<searchResults, ctxPc, ctxOut>>

ragVars == <<mode, question, topK, minSimilarity, db, pc, searched, events,
             pending, raised, answer, storeCalls, embedCalls, genCalls,
             fragRequests, clientGone, sse, http>>

embVars == <<aiProvider, embeddingCache, cacheOther, calls>>

ingVars == <<dirFiles, ingPc, ingResults, attempted>>

enhVars == <<enhQuery, enhTopK, enhMinSimilarity, providerType, enhDocs, enhPc,
             variations, resultSets, enhResults, enhRaised>>

pureVars == <<callPc, callArgs, callResult>>

retryVars == <<rtAllow, rtPc, rtAttempt, rtDelayMs, rtOutcomes, rtInvocations,
               rtWaits>>

storeVars == <<documentsTable, vecTable, rowidSeq>>

pipeVars == <<embeddingPipeline, pipelineCache, initCalls, loadsStarted>>

\* the variables of the other services
extVars == <<ingVars, enhVars, pureVars, retryVars, storeVars, pipeVars>>

coreVars == <<ctxVars, ragVars, embVars, storeVars, pipeVars>>

servicesVars == <<ctxVars, ragVars, embVars, ingVars, enhVars, pureVars, retryVars>>

vars == <<ctxVars, ragVars, embVars, extVars>>

-----------------------------------------------------------------------------
(* Bounds of the model *)

MaxResults == 3

\* rows in the documents table
MaxDocs == 2

\* fragments the generation provider streams before it ends
MaxFragments == 2

\* concurrent callers of generateEmbedding
NumCallers == 2

\* the largest number of files the directory scan finds
MaxFiles == 3

\* the largest number of rows the enhanced search finds in the database
MaxEnhDocs == 2

\* the largest number of words of a text given to chunkText
MaxWords == 3

\* the largest number of semantic units (of sentences, for the chunker of
\* services/ingest.ts) of a text given to semanticChunking
MaxUnits == 2

\* the largest dimension of a vector given to the serializers
MaxDim == 2

\* the largest number of vectors given to serializeVectors
MaxCount == 2

\* the largest number of result lists given to reciprocalRankFusion
MaxLists == 2

\* the largest number of results of one such list
MaxListLen == 3

-----------------------------------------------------------------------------
(* Program constants *)

MAX_CONTEXT_LENGTH == 12000

\* '\n\n[... truncated for length ...]'.length
TruncationMessageLength == 32

\* '\n\n---\n\n'.length, the separator of contextParts.join
SeparatorLength == 7

\* chunk_index === undefined
NoIndex == -1

-----------------------------------------------------------------------------
(* Strings by their lengths *)

Min(a, b) == IF a < b THEN a ELSE b

Max(a, b) == IF a > b THEN a ELSE b

\* the number of characters of the decimal form of n >= 0
RECURSIVE Digits(_)
Digits(n) == IF n < 10 THEN 1 ELSE 1 + Digits(n \div 10)

\* s.substring(0, n).length for a string of length len: a negative n counts as 0
SubstringLength(len, n) == Min(len, Max(n, 0))

\* `[Source ${i + 1}: ${filename}${chunk_index !== undefined ? `, chunk ${chunk_index + 1}` : ''}]`
\* for the result at the 1-based position i (the code's i + 1)
CitationLength(i, r) ==
    Len("[Source ") + Digits(i) + Len(": ") + Len(r.filename)
    + (IF r.chunk_index # NoIndex
       THEN Len(", chunk ") + Digits(r.chunk_index + 1)
       ELSE 0)
    + Len("]")

-----------------------------------------------------------------------------
(* buildContext *)

\* one element of contextParts, `${citation}\n${chunkText}`
PartLength(p) == p.citationLen + 1 + p.textLen

RECURSIVE SumParts(_)
SumParts(parts) ==
    IF parts = <<>> THEN 0 ELSE PartLength(Head(parts)) + SumParts(Tail(parts))

\* contextParts.join('\n\n---\n\n').length
JoinLength(parts) ==
    IF parts = <<>> THEN 0
    ELSE SumParts(parts) + SeparatorLength * (Len(parts) - 1)

\* the first chunk: always included, truncated when it alone is over the limit
FirstPart(r) ==
    LET citation       == CitationLength(1, r)
        citationLength == citation + 1
        partLength     == citationLength + r.textLen
        maxChunkLength == MAX_CONTEXT_LENGTH - citationLength - TruncationMessageLength
        truncated      == partLength > MAX_CONTEXT_LENGTH
    IN  [ source      |-> 1,
          citationLen |-> citation,
          textLen     |-> IF truncated
                          THEN SubstringLength(r.textLen, maxChunkLength)
                               + TruncationMessageLength
                          ELSE r.textLen,
          truncated   |-> truncated ]

\* a subsequent chunk is added only while this holds (the code breaks otherwise)
FitsBudget(totalLength, r, citation) ==
    ~ (totalLength + r.textLen + citation > MAX_CONTEXT_LENGTH)

\* buildContext whose loop steps over a chunk that does not fit and goes on to
\* the chunks after it (`continue` where the code has `break`)
RECURSIVE BuildLoopSkipsOver(_, _, _, _)
BuildLoopSkipsOver(rs, i, contextParts, totalLength) ==
    IF i > Len(rs) THEN contextParts
    ELSE IF i = 1
    THEN LET p == FirstPart(rs[1])
         IN  BuildLoopSkipsOver(rs, 2, <<p>>, p.citationLen + 1 + p.textLen)
    ELSE LET citation == CitationLength(i, rs[i])
         IN  IF ~ FitsBudget(totalLength, rs[i], citation)
             THEN BuildLoopSkipsOver(rs, i + 1, contextParts, totalLength)
             ELSE BuildLoopSkipsOver(rs, i + 1,
                                     Append(contextParts,
                                            [ source      |-> i,
                                              citationLen |-> citation,
                                              textLen     |-> rs[i].textLen,
                                              truncated   |-> FALSE ]),
                                     totalLength + rs[i].textLen + citation)

\* the for loop of buildContext from the 1-based position i on
RECURSIVE BuildLoop(_, _, _, _)
BuildLoop(rs, i, contextParts, totalLength) ==
    IF i > Len(rs) THEN contextParts
    ELSE IF i = 1
    THEN LET p == FirstPart(rs[1])
         IN  BuildLoop(rs, 2, <<p>>, p.citationLen + 1 + p.textLen)
    ELSE LET citation == CitationLength(i, rs[i])
         IN  IF ~ FitsBudget(totalLength, rs[i], citation)
             THEN contextParts
             ELSE BuildLoop(rs, i + 1,
                            Append(contextParts,
                                   [ source      |-> i,
                                     citationLen |-> citation,
                                     textLen     |-> rs[i].textLen,
                                     truncated   |-> FALSE ]),
                            totalLength + rs[i].textLen + citation)

\* buildContext with the first chunk held to the budget like the others and
\* left out when it is over it (no forced inclusion, no truncation)
RECURSIVE BudgetOnlyLoop(_, _, _, _)
BudgetOnlyLoop(rs, i, contextParts, totalLength) ==
    IF i > Len(rs) THEN contextParts
    ELSE LET citation == CitationLength(i, rs[i])
         IN  IF ~ FitsBudget(totalLength, rs[i], citation)
             THEN contextParts
             ELSE BudgetOnlyLoop(rs, i + 1,
                                 Append(contextParts,
                                        [ source      |-> i,
                                          citationLen |-> citation,
                                          textLen     |-> rs[i].textLen,
                                          truncated   |-> FALSE ]),
                                 totalLength + rs[i].textLen + citation)

buildContextBudgetOnly(rs) ==
    LET contextParts == BudgetOnlyLoop(rs, 1, <<>>, 0)
    IN  [ parts         |-> contextParts,
          contextLength |-> JoinLength(contextParts),
          sources       |-> SubSeq(rs, 1, Len(contextParts)) ]

buildContext(rs) ==
    LET contextParts == BuildLoop(rs, 1, <<>>, 0)
    IN  [ parts         |-> contextParts,
          contextLength |-> JoinLength(contextParts),
          sources       |-> SubSeq(rs, 1, Len(contextParts)) ]

-----------------------------------------------------------------------------
(* The context builder applied to bounded candidate lists *)

Filenames == {"a.md"}

ChunkIndexes == {NoIndex, 0}

\* chunk text lengths around the budget: with the 26-character first citation
\* line, 11974 is the longest first chunk that is not truncated
TextLengths == {50, 1800, 5949, 6000, 11949, 11974, 11975, 13000}

Chunks == [filename : Filenames, chunk_index : ChunkIndexes, textLen : TextLengths]

\* search results carry the row id and the hybrid score next to the chunk
AsResults(cs) ==
    [i \in 1..Len(cs) |->
        [ id          |-> i,
          filename    |-> cs[i].filename,
          chunk_index |-> cs[i].chunk_index,
          textLen     |-> cs[i].textLen,
          similarity  |-> 2 ]]

NoContext == [parts |-> <<>>, contextLength |-> 0, sources |-> <<>>]

Callers == 1..NumCallers

IdleCall ==
    [ pc |-> "idle", text |-> "", normalize |-> FALSE, useCache |-> FALSE,
      attempt |-> 0, delayMs |-> 0, providerCalls |-> 0,
      result |-> "none", normalized |-> FALSE ]

\* the embeddings module as loaded: no provider handle, an empty cache, no call
EmbIdle ==
    /\ aiProvider = FALSE
    /\ embeddingCache = {}
    /\ cacheOther = 0
    /\ calls = [p \in Callers |-> IdleCall]

\* no request is being served
RagIdle ==
    /\ mode = "none"
    /\ question = [len |-> 0, nonWs |-> 0]
    /\ topK = 0
    /\ minSimilarity = 0
    /\ db = <<>>
    /\ pc = "idle"
    /\ searched = FALSE
    /\ events = <<>>
    /\ pending = FALSE
    /\ raised = "none"
    /\ answer = [answer |-> "none", sources |-> <<>>]
    /\ storeCalls = 0
    /\ embedCalls = 0
    /\ genCalls = 0
    /\ fragRequests = 0
    /\ clientGone = FALSE
    /\ sse = <<>>
    /\ http = "open"

\* ingestDirectory has not been called
IngestIdle ==
    /\ dirFiles = <<>>
    /\ ingPc = "idle"
    /\ ingResults = <<>>
    /\ attempted = {}

\* the enhanced searchSimilar has not been called
EnhIdle ==
    /\ enhQuery = <<>>
    /\ enhTopK = 0
    /\ enhMinSimilarity = 0
    /\ providerType = "transformers"
    /\ enhDocs = <<>>
    /\ enhPc = "idle"
    /\ variations = <<>>
    /\ resultSets = <<>>
    /\ enhResults = <<>>
    /\ enhRaised = "none"

\* no stateless function is being called
PureIdle ==
    /\ callPc = "idle"
    /\ callArgs = <<>>
    /\ callResult = <<>>

\* the tables are empty and no id was given out
StoreIdle ==
    /\ documentsTable = {}
    /\ vecTable = {}
    /\ rowidSeq = 0

\* the pipeline is not loaded and nobody initialises
PipeIdle ==
    /\ embeddingPipeline = FALSE
    /\ pipelineCache = FALSE
    /\ initCalls = [p \in Callers |-> [pc |-> "idle", via |-> "none"]]
    /\ loadsStarted = 0

\* nothing is running
CoreIdle ==
    /\ searchResults = <<>>
    /\ ctxPc = "ready"
    /\ ctxOut = NoContext
    /\ RagIdle
    /\ EmbIdle
    /\ StoreIdle
    /\ PipeIdle

\* withRetry has not been called
RetryIdle ==
    /\ rtAllow = {"any"}
    /\ rtPc = "idle"
    /\ rtAttempt = 0
    /\ rtDelayMs = 0
    /\ rtOutcomes = <<>>
    /\ rtInvocations = 0
    /\ rtWaits = 0

ExtIdle == IngestIdle /\ EnhIdle /\ PureIdle /\ RetryIdle /\ StoreIdle /\ PipeIdle

\* none of the services above is running
ServicesIdle ==
    /\ searchResults = <<>>
    /\ ctxPc = "ready"
    /\ ctxOut = NoContext
    /\ RagIdle
    /\ EmbIdle
    /\ IngestIdle
    /\ EnhIdle
    /\ PureIdle
    /\ RetryIdle

InitContext ==
    /\ \E n \in 1..MaxResults : \E cs \in [1..n -> Chunks] :
          searchResults = AsResults(cs)
    /\ ctxPc = "ready"
    /\ ctxOut = NoContext
    /\ RagIdle
    /\ EmbIdle
    /\ ExtIdle

BuildContext ==
    /\ ctxPc = "ready"
    /\ ctxOut' = buildContext(searchResults)
    /\ ctxPc' = "built"
    /\ UNCHANGED <<searchResults, ragVars, embVars, extVars>>

NextContext == BuildContext

SpecContext == InitContext /\ [][NextContext]_vars

-----------------------------------------------------------------------------
(* Properties of the context builder *)

\* C9: for every list of candidates the context string returned by the context
\* builder (citations, chunk texts and the separators joining them) is at most
\* MAX_CONTEXT_LENGTH characters long.
C9_ContextWithinBudget ==
    ctxPc = "built" => ctxOut.contextLength <= MAX_CONTEXT_LENGTH

\* the first candidate's `${citation}\n${chunk_text}` alone is over the budget
FirstOverBudget(rs) ==
    CitationLength(1, rs[1]) + 1 + rs[1].textLen > MAX_CONTEXT_LENGTH

RECURSIVE CountedLength(_)
CountedLength(parts) ==
    IF parts = <<>> THEN 0
    ELSE IF Len(parts) = 1 THEN PartLength(parts[1])
    ELSE CountedLength(SubSeq(parts, 1, Len(parts) - 1))
         + parts[Len(parts)].citationLen + parts[Len(parts)].textLen

\* the candidate at position j >= 2 would take the context over the budget,
\* given the parts before it
WouldOverflow(rs, parts, j) ==
    CountedLength(SubSeq(parts, 1, j - 1)) + rs[j].textLen
        + CitationLength(j, rs[j]) > MAX_CONTEXT_LENGTH

\* the sources are the candidates cited in the context, in order, and they
\* are a prefix of the candidate list that stops at the first candidate after
\* the first one that would overflow
SourcesArePrefix ==
    LET k == Len(ctxOut.sources)
    IN  /\ k >= 1
        /\ k = Len(ctxOut.parts)
        /\ ctxOut.sources = SubSeq(searchResults, 1, k)
        /\ \A j \in 1..k :
              /\ ctxOut.parts[j].source = j
              /\ ctxOut.parts[j].citationLen = CitationLength(j, searchResults[j])
        /\ \A j \in 2..k :
              /\ ~ ctxOut.parts[j].truncated
              /\ ctxOut.parts[j].textLen = searchResults[j].textLen
              /\ ~ WouldOverflow(searchResults, ctxOut.parts, j)
        /\ k < Len(searchResults) =>
              WouldOverflow(searchResults, ctxOut.parts, k + 1)

-----------------------------------------------------------------------------
(* Input validation (utils/errors.ts) *)

\* validateQueryInput's default maxLength
maxLength == 1000

\* validateTopK's default maxK
maxK == 100

\* Number.isInteger of a number held in halves
IsInteger(n) == n % 2 = 0

validateQueryInput(query) ==
    IF query.len = 0 THEN "ValidationError"            \* !query
    ELSE IF query.nonWs = 0 THEN "ValidationError"     \* query.trim().length === 0
    ELSE IF query.len > maxLength THEN "ValidationError"
    ELSE "ok"

\* validateTopK without the upper bound
validateTopKUnbounded(k) ==
    IF ~ IsInteger(k) \/ k < 2 * 1 THEN "ValidationError" ELSE "ok"

validateTopK(k) ==
    IF ~ IsInteger(k) \/ k < 2 * 1 THEN "ValidationError"
    ELSE IF k > 2 * maxK THEN "ValidationError"
    ELSE "ok"

validateSimilarityThreshold(threshold) ==
    IF threshold < 2 * 0 \/ threshold > 2 * 1 THEN "ValidationError" ELSE "ok"

\* the three validations askQuestion, streamQuestion and searchSimilar open with;
\* the first that throws ends the call
ValidateInputs(query, k, threshold) ==
    IF validateQueryInput(query) # "ok" THEN validateQueryInput(query)
    ELSE IF validateTopK(k) # "ok" THEN validateTopK(k)
    ELSE validateSimilarityThreshold(threshold)

-----------------------------------------------------------------------------
(* searchSimilar (services/search.ts): hybrid scoring, threshold, order, topK *)

\* weights in tenths; a hybrid score is therefore held in twentieths
QUESTION_WEIGHT == 6

CONTENT_WEIGHT == 4

RECURSIVE MaxQuestionSimilarity(_, _)
MaxQuestionSimilarity(sims, best) ==
    IF sims = <<>> THEN best
    ELSE MaxQuestionSimilarity(Tail(sims), Max(best, Head(sims)))

HybridScore(doc) ==
    MaxQuestionSimilarity(doc.questionSims, 0) * QUESTION_WEIGHT
    + doc.contentSim * CONTENT_WEIGHT

\* result.similarity >= minSimilarity, the score in twentieths, the threshold in halves
MeetsThreshold(r, threshold) == r.similarity >= 10 * threshold

Scored(docs) ==
    [i \in 1..Len(docs) |->
        [ id          |-> i,
          filename    |-> docs[i].filename,
          chunk_index |-> docs[i].chunk_index,
          textLen     |-> docs[i].textLen,
          similarity  |-> HybridScore(docs[i]) ]]

RECURSIVE FilterThreshold(_, _)
FilterThreshold(rs, threshold) ==
    IF rs = <<>> THEN <<>>
    ELSE IF MeetsThreshold(Head(rs), threshold)
         THEN <<Head(rs)>> \o FilterThreshold(Tail(rs), threshold)
         ELSE FilterThreshold(Tail(rs), threshold)

\* r put into a list in descending order, behind the entries that compare equal
RECURSIVE InsertDescending(_, _)
InsertDescending(sorted, r) ==
    IF sorted = <<>> THEN <<r>>
    ELSE IF Head(sorted).similarity >= r.similarity
         THEN <<Head(sorted)>> \o InsertDescending(Tail(sorted), r)
         ELSE <<r>> \o sorted

\* Array.prototype.sort((a, b) => b.similarity - a.similarity), which is stable
RECURSIVE SortDescending(_, _)
SortDescending(rs, sorted) ==
    IF rs = <<>> THEN sorted
    ELSE SortDescending(Tail(rs), InsertDescending(sorted, Head(rs)))

\* rs.slice(0, k) for an integer k >= 0 held in halves
Slice(rs, k) == SubSeq(rs, 1, Min(Len(rs), k \div 2))

\* what searchSimilar returns once the query embedding is there
SearchResults(docs, k, threshold) ==
    Slice(SortDescending(FilterThreshold(Scored(docs), threshold), <<>>), k)

-----------------------------------------------------------------------------
(* One request through askQuestion / streamQuestion / searchSimilar *)

\* query strings: empty, blank, ordinary, over maxLength
Questions ==
    { [len |-> 0, nonWs |-> 0], [len |-> 3, nonWs |-> 0],
      [len |-> 12, nonWs |-> 10], [len |-> 1001, nonWs |-> 900] }

\* -1, 0, 1, 1.5, 100, 101
TopKs == {-2, 0, 2, 3, 200, 202}

\* -0.5, 0, 0.5, 1, 1.5
Thresholds == {-1, 0, 1, 2, 3}

\* cosine similarities of the query to a row's question embeddings and content
QuestionSims == {<<>>, <<2>>, <<-1, 1>>, <<-1>>}

ContentSims == {0, 2}

Rows == [questionSims : QuestionSims, contentSim : ContentSims]

AsDocuments(rows) ==
    [i \in 1..Len(rows) |->
        [ filename     |-> "a.md",
          chunk_index  |-> i - 1,
          textLen      |-> 1800,
          questionSims |-> rows[i].questionSims,
          contentSim   |-> rows[i].contentSim ]]

FallbackChunk == [type |-> "chunk", text |-> "insufficient information"]

FragmentChunk == [type |-> "chunk", text |-> "fragment"]

DoneEvent == [type |-> "done"]

ErrorEvent(message) == [type |-> "error", error |-> message]

SourcesEvent(sources) == [type |-> "sources", sources |-> sources]

NoAnswer == [answer |-> "none", sources |-> <<>>]

Init ==
    /\ mode \in {"ask", "stream", "search"}
    /\ question \in Questions
    /\ topK \in TopKs
    /\ minSimilarity \in Thresholds
    /\ \E n \in 0..MaxDocs : \E rows \in [1..n -> Rows] : db = AsDocuments(rows)
    /\ pc = "start"
    /\ searched = FALSE
    /\ searchResults = <<>>
    /\ ctxPc = "ready"
    /\ ctxOut = NoContext
    /\ events = <<>>
    /\ pending = FALSE
    /\ raised = "none"
    /\ answer = NoAnswer
    /\ storeCalls = 0
    /\ embedCalls = 0
    /\ genCalls = 0
    /\ fragRequests = 0
    /\ clientGone = FALSE
    /\ sse = <<>>
    /\ http = "open"
    /\ EmbIdle
    /\ ExtIdle

inputVars == <<mode, question, topK, minSimilarity, db>>

\* streamQuestion yields e and suspends
Yield(e) ==
    /\ events' = Append(events, e)
    /\ pending' = TRUE

\* the orchestrator without the empty-result short circuit: context and
\* generation on whatever the search returned
AfterSearchAlwaysGenerates(rs) ==
    /\ searched' = TRUE
    /\ searchResults' = rs
    /\ mode \in {"ask", "stream"}
    /\ ctxOut' = buildContext(rs)
    /\ ctxPc' = "built"
    /\ IF mode = "ask"
       THEN /\ genCalls' = genCalls + 1
            /\ pc' = "generating"
            /\ UNCHANGED <<answer, events, pending>>
       ELSE /\ Yield(SourcesEvent(ctxOut'.sources))
            /\ pc' = "yieldedSources"
            /\ UNCHANGED <<answer, genCalls>>

\* what follows `await searchSimilar(...)` returning rs, up to the next await or yield
AfterSearch(rs) ==
    /\ searched' = TRUE
    /\ searchResults' = rs
    /\ CASE mode = "search" ->
              /\ answer' = [answer |-> "results", sources |-> rs]
              /\ pc' = "returned"
              /\ UNCHANGED <<ctxOut, ctxPc, events, pending, genCalls>>
         [] mode = "ask" /\ Len(rs) = 0 ->
              /\ answer' = [answer |-> "insufficient information", sources |-> <<>>]
              /\ pc' = "returned"
              /\ UNCHANGED <<ctxOut, ctxPc, events, pending, genCalls>>
         [] mode = "ask" /\ Len(rs) # 0 ->
              /\ ctxOut' = buildContext(rs)
              /\ ctxPc' = "built"
              /\ genCalls' = genCalls + 1          \* generateAnswer is awaited
              /\ pc' = "generating"
              /\ UNCHANGED <<answer, events, pending>>
         [] mode = "stream" /\ Len(rs) = 0 ->
              /\ Yield(FallbackChunk)
              /\ pc' = "yieldedFallback"
              /\ UNCHANGED <<ctxOut, ctxPc, answer, genCalls>>
         [] mode = "stream" /\ Len(rs) # 0 ->
              /\ ctxOut' = buildContext(rs)
              /\ ctxPc' = "built"
              /\ Yield(SourcesEvent(ctxOut'.sources))
              /\ pc' = "yieldedSources"
              /\ UNCHANGED <<answer, genCalls>>

\* the handler's catch that closes the response stream and enqueues nothing
HandlerCatchOnlyCloses(message) ==
    /\ sse' = sse
    /\ http' = "closed"

\* the catch around the handler's for await: the error becomes an error event
\* on the response stream, which is then closed
HandlerCatch(message) ==
    /\ sse' = Append(sse, ErrorEvent(message))
    /\ http' = "closed"

\* the call up to its first await: the validations, then searchSimilar's
\* getAllDocuments and either its empty-table return or its await of the
\* query embedding. A ValidationError leaves streamQuestion outside its try
\* block, so the consumer's first next() rejects; the /ask/stream handler
\* catches that, enqueues an error event and closes.
Start ==
    /\ pc = "start"
    /\ LET v == ValidateInputs(question, topK, minSimilarity)
       IN  IF v # "ok"
           THEN /\ raised' = v
                /\ pc' = "thrown"
                /\ IF mode = "stream"
                   THEN HandlerCatch(v)
                   ELSE UNCHANGED <<sse, http>>
                /\ UNCHANGED <<searched, searchResults, ctxOut, ctxPc, events,
                               pending, answer, storeCalls, embedCalls, genCalls>>
           ELSE /\ storeCalls' = storeCalls + 1
                /\ IF Len(db) = 0
                   THEN /\ AfterSearch(<<>>)
                        /\ UNCHANGED embedCalls
                   ELSE /\ embedCalls' = embedCalls + 1
                        /\ pc' = "embedding"
                        /\ UNCHANGED <<searched, searchResults, ctxOut, ctxPc,
                                       events, pending, answer, genCalls>>
                /\ UNCHANGED <<raised, sse, http>>
    /\ UNCHANGED <<extVars, embVars, inputVars, fragRequests, clientGone>>

\* generateEmbedding resolves: searchSimilar scores, filters, sorts, slices, returns
EmbedResolves ==
    /\ pc = "embedding"
    /\ AfterSearch(SearchResults(db, topK, minSimilarity))
    /\ UNCHANGED <<extVars, embVars, inputVars, raised, storeCalls, embedCalls, fragRequests,
                   clientGone, sse, http>>

\* generateEmbedding rejects with an EmbeddingError: askQuestion and searchSimilar
\* let it through, streamQuestion's catch turns it into an error event
EmbedRejects ==
    /\ pc = "embedding"
    /\ IF mode = "stream"
       THEN /\ Yield(ErrorEvent("EmbeddingError"))
            /\ pc' = "yieldedError"
            /\ UNCHANGED raised
       ELSE /\ raised' = "EmbeddingError"
            /\ pc' = "thrown"
            /\ UNCHANGED <<events, pending>>
    /\ UNCHANGED <<extVars, embVars, inputVars, searched, searchResults, ctxOut, ctxPc, answer,
                   storeCalls, embedCalls, genCalls, fragRequests, clientGone,
                   sse, http>>

\* askQuestion: generateAnswer resolves
GenerateResolves ==
    /\ pc = "generating"
    /\ answer' = [answer |-> "generated", sources |-> ctxOut.sources]
    /\ pc' = "returned"
    /\ UNCHANGED <<extVars, embVars, inputVars, searched, searchResults, ctxOut, ctxPc, events,
                   pending, raised, storeCalls, embedCalls, genCalls,
                   fragRequests, clientGone, sse, http>>

\* askQuestion: generateAnswer rejects and the error propagates
GenerateRejects ==
    /\ pc = "generating"
    /\ raised' = "Error"
    /\ pc' = "thrown"
    /\ UNCHANGED <<extVars, embVars, inputVars, searched, searchResults, ctxOut, ctxPc, events,
                   pending, answer, storeCalls, embedCalls, genCalls,
                   fragRequests, clientGone, sse, http>>

\* streamAnswer's provider delivers the fragment asked for
FragmentArrives ==
    /\ pc = "pulling"
    /\ fragRequests <= MaxFragments
    /\ Yield(FragmentChunk)
    /\ pc' = "yieldedChunk"
    /\ UNCHANGED <<extVars, embVars, inputVars, searched, searchResults, ctxOut, ctxPc, raised,
                   answer, storeCalls, embedCalls, genCalls, fragRequests,
                   clientGone, sse, http>>

\* the provider's stream ends: streamQuestion yields done
StreamEnds ==
    /\ pc = "pulling"
    /\ Yield(DoneEvent)
    /\ pc' = "yieldedDone"
    /\ UNCHANGED <<extVars, embVars, inputVars, searched, searchResults, ctxOut, ctxPc, raised,
                   answer, storeCalls, embedCalls, genCalls, fragRequests,
                   clientGone, sse, http>>

\* streamAnswer throws (initialisation or provider failure): streamQuestion's
\* catch yields the error event
StreamRejects ==
    /\ pc = "pulling"
    /\ Yield(ErrorEvent("Error"))
    /\ pc' = "yieldedError"
    /\ UNCHANGED <<extVars, embVars, inputVars, searched, searchResults, ctxOut, ctxPc, raised,
                   answer, storeCalls, embedCalls, genCalls, fragRequests,
                   clientGone, sse, http>>

\* Resume with the fallback branch returning straight after its chunk
ResumeFallbackReturns ==
    CASE pc = "yieldedFallback" ->
           /\ pc' = "finished"
           /\ pending' = FALSE
           /\ UNCHANGED <<events, genCalls, fragRequests>>
      [] pc = "yieldedSources" ->
           /\ genCalls' = genCalls + 1
           /\ fragRequests' = fragRequests + 1
           /\ pc' = "pulling"
           /\ pending' = FALSE
           /\ UNCHANGED events
      [] pc = "yieldedChunk" ->
           /\ fragRequests' = fragRequests + 1
           /\ pc' = "pulling"
           /\ pending' = FALSE
           /\ UNCHANGED <<events, genCalls>>
      [] pc \in {"yieldedDone", "yieldedError"} ->
           /\ pc' = "finished"
           /\ pending' = FALSE
           /\ UNCHANGED <<events, genCalls, fragRequests>>

\* the consumer's next() resumes streamQuestion behind the yield it is suspended at
Resume ==
    CASE pc = "yieldedFallback" ->
           /\ Yield(DoneEvent)
           /\ pc' = "yieldedDone"
           /\ UNCHANGED <<genCalls, fragRequests>>
      [] pc = "yieldedSources" ->
           \* for await (... of streamAnswer(...)): the call and the first pull
           /\ genCalls' = genCalls + 1
           /\ fragRequests' = fragRequests + 1
           /\ pc' = "pulling"
           /\ pending' = FALSE
           /\ UNCHANGED events
      [] pc = "yieldedChunk" ->
           /\ fragRequests' = fragRequests + 1
           /\ pc' = "pulling"
           /\ pending' = FALSE
           /\ UNCHANGED <<events, genCalls>>
      [] pc \in {"yieldedDone", "yieldedError"} ->
           /\ pc' = "finished"
           /\ pending' = FALSE
           /\ UNCHANGED <<events, genCalls, fragRequests>>

\* the body of the handler's for await: the event is enqueued as an SSE message,
\* then the loop asks streamQuestion for the next event; when streamQuestion is
\* done the handler closes the stream
EnqueueAccepted ==
    /\ mode = "stream"
    /\ pending
    /\ sse' = Append(sse, events[Len(events)])
    /\ Resume
    /\ http' = IF pc' = "finished" THEN "closed" ELSE http
    /\ UNCHANGED <<extVars, embVars, inputVars, searched, searchResults, ctxOut, ctxPc, raised,
                   answer, storeCalls, embedCalls, clientGone>>

\* the response stream was cancelled with the client and controller.enqueue
\* throws: the for await exits through streamQuestion.return(), which also ends
\* streamAnswer; the handler's catch enqueues again and fails the same way
EnqueueThrows ==
    /\ mode = "stream"
    /\ pending
    /\ clientGone
    /\ pc' = "abandoned"
    /\ pending' = FALSE
    /\ http' = "failed"
    /\ UNCHANGED <<extVars, embVars, inputVars, searched, searchResults, ctxOut, ctxPc, events,
                   raised, answer, storeCalls, embedCalls, genCalls,
                   fragRequests, clientGone, sse>>

\* the HTTP client goes away while the request waits on a provider
Abandon ==
    /\ mode = "stream"
    /\ pc \in {"embedding", "pulling"}
    /\ ~ clientGone
    /\ clientGone' = TRUE
    /\ UNCHANGED <<extVars, embVars, inputVars, ctxVars, pc, searched, events, pending, raised,
                   answer, storeCalls, embedCalls, genCalls, fragRequests, sse,
                   http>>

Next ==
    \/ Start
    \/ EmbedResolves
    \/ EmbedRejects
    \/ GenerateResolves
    \/ GenerateRejects
    \/ FragmentArrives
    \/ StreamEnds
    \/ StreamRejects
    \/ EnqueueAccepted
    \/ EnqueueThrows
    \/ Abandon

Spec == Init /\ [][Next]_vars

-----------------------------------------------------------------------------
(* withRetry (utils/errors.ts) *)

\* DEFAULT_RETRY_CONFIG
maxAttempts == 3

initialDelayMs == 1000

maxDelayMs == 10000

backoffMultiplier == 2

\* the catch block of withRetry without the check of the allow-list: every
\* error is retried until the attempts run out
RetryDecisionAnyError(retryableErrors, attempt, delayMs, err) ==
    IF attempt = maxAttempts
    THEN [retry |-> FALSE, attempt |-> attempt, delayMs |-> delayMs]
    ELSE [retry   |-> TRUE,
          attempt |-> attempt + 1,
          delayMs |-> Min(delayMs * backoffMultiplier, maxDelayMs)]

\* what the catch block of withRetry does with an error of class err thrown by
\* attempt number attempt: rethrow it, or wait delayMs and go round again.
\* retryableErrors is the allow-list of the call, or "any" when none is given.
RetryDecision(retryableErrors, attempt, delayMs, err) ==
    IF retryableErrors # {"any"} /\ err \notin retryableErrors
    THEN [retry |-> FALSE, attempt |-> attempt, delayMs |-> delayMs]
    ELSE IF attempt = maxAttempts
    THEN [retry |-> FALSE, attempt |-> attempt, delayMs |-> delayMs]
    ELSE [retry   |-> TRUE,
          attempt |-> attempt + 1,
          delayMs |-> Min(delayMs * backoffMultiplier, maxDelayMs)]

-----------------------------------------------------------------------------
(* One call of withRetry with the default attempts and delays *)

ErrorClasses == {"NetworkError", "TimeoutError", "ValidationError"}

\* the allow-lists: none given, an empty one, one class, two classes
AllowLists ==
    { {"any"}, {}, {"NetworkError"}, {"NetworkError", "TimeoutError"} }

\* withRetry up to its first await: the first attempt invokes fn
InitRetry ==
    /\ rtAllow \in AllowLists
    /\ rtPc = "calling"
    /\ rtAttempt = 1
    /\ rtDelayMs = initialDelayMs
    /\ rtOutcomes = <<>>
    /\ rtInvocations = 1
    /\ rtWaits = 0
    /\ CoreIdle
    /\ IngestIdle
    /\ EnhIdle
    /\ PureIdle

\* fn resolves: withRetry returns its value
FnResolves ==
    /\ rtPc = "calling"
    /\ rtOutcomes' = Append(rtOutcomes, "ok")
    /\ rtPc' = "returned"
    /\ UNCHANGED <<rtAllow, rtAttempt, rtDelayMs, rtInvocations, rtWaits,
                   coreVars, ingVars, enhVars, pureVars>>

\* fn rejects with an error of class err: the catch block rethrows it, or
\* leaves the loop after the last attempt and throws it, or sets the timer
FnRejects(err) ==
    /\ rtPc = "calling"
    /\ rtOutcomes' = Append(rtOutcomes, err)
    /\ LET d == RetryDecision(rtAllow, rtAttempt, rtDelayMs, err)
       IN  IF d.retry
           THEN /\ rtPc' = "waiting"
                /\ rtWaits' = rtWaits + 1
           ELSE /\ rtPc' = "thrown"
                /\ UNCHANGED rtWaits
    /\ UNCHANGED <<rtAllow, rtAttempt, rtDelayMs, rtInvocations,
                   coreVars, ingVars, enhVars, pureVars>>

\* the backoff timer fires: the delay grows and the next attempt invokes fn
TimerFires ==
    /\ rtPc = "waiting"
    /\ LET d == RetryDecision(rtAllow, rtAttempt, rtDelayMs,
                              rtOutcomes[Len(rtOutcomes)])
       IN  /\ rtAttempt' = d.attempt
           /\ rtDelayMs' = d.delayMs
    /\ rtInvocations' = rtInvocations + 1
    /\ rtPc' = "calling"
    /\ UNCHANGED <<rtAllow, rtOutcomes, rtWaits,
                   coreVars, ingVars, enhVars, pureVars>>

NextRetry ==
    \/ FnResolves
    \/ \E err \in ErrorClasses : FnRejects(err)
    \/ TimerFires

SpecRetry == InitRetry /\ [][NextRetry]_vars

\* the error class is one withRetry may retry under the allow-list of the call
Retryable(err) == rtAllow = {"any"} \/ err \in rtAllow

\* C18: for every sequence of outcomes of the wrapped function withRetry
\* invokes it at most maxAttempts times, never invokes it again after a
\* success, and never invokes it again after a failure whose class is not in
\* the retryableErrors allow-list: such an error is rethrown at once, with no
\* backoff wait.
C18_RetryIsBounded ==
    /\ rtInvocations <= maxAttempts
    /\ \A i \in 1..Len(rtOutcomes) :
           (rtOutcomes[i] = "ok" \/ ~ Retryable(rtOutcomes[i])) =>
               /\ i = Len(rtOutcomes)
               /\ rtInvocations = i
               /\ rtWaits = i - 1
               /\ rtPc = IF rtOutcomes[i] = "ok" THEN "returned" ELSE "thrown"

\* the second invocation, made after a retried failure and one backoff wait,
\* failed with an error outside the allow-list and withRetry threw
C18_Witness ==
    /\ rtPc = "thrown"
    /\ Len(rtOutcomes) = 2
    /\ Retryable(rtOutcomes[1])
    /\ ~ Retryable(rtOutcomes[2])
    /\ rtInvocations = 2
    /\ rtWaits = 1

-----------------------------------------------------------------------------
(* generateEmbedding (services/embeddings.ts) under concurrent callers *)

\* the literal of `embeddingCache.size < 10000`
EMBEDDING_CACHE_LIMIT == 10000

Texts == {"alpha", "beta"}

\* the error classes the provider's embed() rejects with; EmbeddingError is a
\* class of this repository and never one of them
ProviderErrors == {"APICallError"}

\* { retryableErrors: [EmbeddingError] }
EmbedRetryableErrors == {"EmbeddingError"}

CacheSize == Cardinality(embeddingCache) + cacheOther

CacheHas(text) == \E e \in embeddingCache : e.text = text

CacheGet(text) == CHOOSE e \in embeddingCache : e.text = text

\* Map.set: one entry per key
CacheSet(text, normalized) ==
    {e \in embeddingCache : e.text # text}
        \cup {[text |-> text, normalized |-> normalized]}

\* the size test with the limit itself still admitted
CacheHasRoomInclusive == CacheSize <= EMBEDDING_CACHE_LIMIT

\* embeddingCache.size < 10000
CacheHasRoom == CacheSize < EMBEDDING_CACHE_LIMIT

\* cache sizes a long-running process can have reached
InitEmbed ==
    /\ aiProvider = FALSE
    /\ embeddingCache = {}
    /\ cacheOther \in {0, EMBEDDING_CACHE_LIMIT - 2, EMBEDDING_CACHE_LIMIT - 1,
                       EMBEDDING_CACHE_LIMIT}
    /\ calls = [p \in Callers |-> IdleCall]
    /\ searchResults = <<>>
    /\ ctxPc = "ready"
    /\ ctxOut = NoContext
    /\ RagIdle
    /\ ExtIdle

\* generateEmbedding(text, normalize, useCache) up to its first provider await:
\* a cache hit returns at once; otherwise the provider handle is initialised
\* when missing and withRetry makes its first embed() call
Call(p, text, normalize, useCache) ==
    /\ calls[p].pc = "idle"
    /\ IF useCache /\ CacheHas(text)
       THEN /\ calls' = [calls EXCEPT ![p] =
                  [@ EXCEPT !.pc = "returned", !.text = text,
                            !.normalize = normalize, !.useCache = useCache,
                            !.result = "cached",
                            !.normalized = CacheGet(text).normalized]]
            /\ UNCHANGED aiProvider
       ELSE /\ aiProvider' = TRUE
            /\ calls' = [calls EXCEPT ![p] =
                  [@ EXCEPT !.pc = "awaitEmbed", !.text = text,
                            !.normalize = normalize, !.useCache = useCache,
                            !.attempt = 1, !.delayMs = initialDelayMs,
                            !.providerCalls = 1]]
    /\ UNCHANGED <<embeddingCache, cacheOther, ctxVars, ragVars, extVars>>

\* embed() resolves: normalise if asked, cache while there is room, return
EmbedOk(p) ==
    /\ calls[p].pc = "awaitEmbed"
    /\ IF calls[p].useCache /\ CacheHasRoom
       THEN embeddingCache' = CacheSet(calls[p].text, calls[p].normalize)
       ELSE UNCHANGED embeddingCache
    /\ calls' = [calls EXCEPT ![p] =
          [@ EXCEPT !.pc = "returned", !.result = "embedded",
                    !.normalized = calls[p].normalize]]
    /\ UNCHANGED <<aiProvider, cacheOther, ctxVars, ragVars, extVars>>

\* embed() rejects: withRetry decides; when it rethrows, generateEmbedding's
\* catch wraps the error in an EmbeddingError; when it retries, it waits
\* delayMs and calls embed() again
EmbedFails(p, err) ==
    /\ calls[p].pc = "awaitEmbed"
    /\ LET d == RetryDecision(EmbedRetryableErrors, calls[p].attempt,
                              calls[p].delayMs, err)
       IN  IF d.retry
           THEN calls' = [calls EXCEPT ![p] =
                    [@ EXCEPT !.attempt = d.attempt, !.delayMs = d.delayMs,
                              !.providerCalls = @ + 1]]
           ELSE calls' = [calls EXCEPT ![p] =
                    [@ EXCEPT !.pc = "failed", !.result = "EmbeddingError"]]
    /\ UNCHANGED <<aiProvider, embeddingCache, cacheOther, ctxVars, ragVars, extVars>>

\* the caller has its vector or its EmbeddingError and is free to call again
Settle(p) ==
    /\ calls[p].pc \in {"returned", "failed"}
    /\ calls' = [calls EXCEPT ![p] = IdleCall]
    /\ UNCHANGED <<aiProvider, embeddingCache, cacheOther, ctxVars, ragVars, extVars>>

NextEmbed ==
    \/ \E p \in Callers, text \in Texts, normalize \in BOOLEAN, useCache \in BOOLEAN :
          Call(p, text, normalize, useCache)
    \/ \E p \in Callers : EmbedOk(p)
    \/ \E p \in Callers, err \in ProviderErrors : EmbedFails(p, err)
    \/ \E p \in Callers : Settle(p)

SpecEmbed == InitEmbed /\ [][NextEmbed]_vars

-----------------------------------------------------------------------------
(* Properties of generateEmbedding *)

\* C6: a failure of the embedding provider call made inside generateEmbedding
\* is retried with exponential backoff up to the fixed attempt count, 3
\* provider calls in total, before it is surfaced as an EmbeddingError.
C6_RetriedBeforeSurfacing ==
    \A p \in Callers :
        calls[p].pc = "failed" =>
            (calls[p].result = "EmbeddingError" /\ calls[p].providerCalls = 3)

\* C8: under every interleaving of concurrent generateEmbedding calls the
\* shared cache never holds more than 10000 entries; once the capacity is
\* reached new texts are not cached while existing entries keep being served.
C8_CacheBounded ==
    /\ [](CacheSize <= 10000)
    /\ [][ /\ CacheSize >= 10000 =>
                (embeddingCache' = embeddingCache /\ cacheOther' = cacheOther)
           /\ \A p \in Callers :
                (/\ calls[p].pc = "idle"
                 /\ calls'[p].pc # "idle"
                 /\ calls'[p].useCache
                 /\ \E e \in embeddingCache : e.text = calls'[p].text)
                => (calls'[p].result = "cached" /\ calls'[p].providerCalls = 0)
         ]_vars

\* the cache is full, one caller was served from it and another got a fresh
\* embedding of a text that was left uncached
C8_Witness ==
    /\ CacheSize = 10000
    /\ \E p, q \in Callers :
          /\ calls[p].result = "cached"
          /\ calls[q].result = "embedded"
          /\ calls[q].useCache
          /\ ~ \E e \in embeddingCache : e.text = calls[q].text

-----------------------------------------------------------------------------
(* Properties of the orchestrator *)

IsTerminal(e) == e.type \in {"done", "error"}

\* streamQuestion has ended on its own: it returned or it threw
StreamOver == mode = "stream" /\ pc \in {"finished", "thrown"}

\* C1: in the event sequence streamQuestion yields for one request, for any
\* inputs and any provider behaviour, there is at most one sources event and it
\* precedes every chunk event, and the sequence ends with exactly one terminal
\* event (done or error) after which no further event is yielded.
C1_EventOrdering ==
    mode = "stream" =>
        /\ Cardinality({i \in DOMAIN events : events[i].type = "sources"}) <= 1
        /\ \A i, j \in DOMAIN events :
              (events[i].type = "sources" /\ events[j].type = "chunk") => i < j
        /\ \A i \in DOMAIN events : IsTerminal(events[i]) => i = Len(events)
        /\ StreamOver => (events # <<>> /\ IsTerminal(events[Len(events)]))

\* C2: in streaming mode an exception raised during retrieval (validation,
\* embedding, search) or generation becomes a single error event that ends the
\* sequence; it is never raised to the consumer iterating streamQuestion.
C2_NothingRaisedToConsumer ==
    mode = "stream" => (raised = "none" /\ pc # "thrown")

\* C3: whenever the search step returns zero candidates, neither askQuestion nor
\* streamQuestion invokes the generation provider, and askQuestion returns the
\* fixed insufficient-information answer with an empty sources list.
C3_NoGenerationWithoutCandidates ==
    (searched /\ Len(searchResults) = 0 /\ mode \in {"ask", "stream"}) =>
        /\ genCalls = 0
        /\ fragRequests = 0
        /\ mode = "ask" =>
              /\ pc = "returned"
              /\ answer = [answer |-> "insufficient information", sources |-> <<>>]

\* askQuestion came back from a search that filtered every stored row out
C3_Witness ==
    /\ mode = "ask"
    /\ Len(db) > 0
    /\ searched
    /\ Len(searchResults) = 0
    /\ pc = "returned"

\* C4: when the search step returns zero candidates streamQuestion yields
\* exactly two events, a chunk with the fixed fallback message and then a done,
\* and no sources event.
C4_FallbackStream ==
    (mode = "stream" /\ searched /\ Len(searchResults) = 0) =>
        /\ Len(events) \in {1, 2}
        /\ events[1] = [type |-> "chunk", text |-> "insufficient information"]
        /\ Len(events) = 2 => events[2].type = "done"
        /\ pc = "finished" => Len(events) = 2

\* streamQuestion ran to its end on a search without candidates
C4_Witness ==
    /\ mode = "stream"
    /\ searched
    /\ Len(searchResults) = 0
    /\ pc = "finished"
    /\ Len(events) = 2

\* the inputs the claim calls invalid: a blank query, a topK that is no positive
\* integer or is over 100, a threshold outside [0, 1] (numbers in halves)
InvalidInputs ==
    \/ question.nonWs = 0
    \/ topK % 2 # 0
    \/ topK < 2
    \/ topK > 200
    \/ minSimilarity < 0
    \/ minSimilarity > 2

C7_NoRequestAfterAbandon ==
    [][clientGone => fragRequests' = fragRequests]_vars

-----------------------------------------------------------------------------
(* Query expansion (services/query-expansion.ts).  A query is the sequence  *)
(* of its lower-case words.                                                 *)

QUERY_EXPANSION_COUNT == 2

\* s.slice(0, n)
Take(s, n) == SubSeq(s, 1, Min(Len(s), Max(n, 0)))

\* stripped.startsWith(prefix), for whole words
StartsWith(q, prefix) ==
    Len(q) >= Len(prefix) /\ SubSeq(q, 1, Len(prefix)) = prefix

\* stripped.replace(/^prefix\s+/, ''): the prefix goes when a word follows it
StripPrefix(q, prefix) ==
    IF Len(q) > Len(prefix) THEN SubSeq(q, Len(prefix) + 1, Len(q)) ELSE q

DomainTerms == {"strength", "training"}

generateRuleBasedVariations(query) ==
    LET stripped == query
        rephrased ==
            IF StartsWith(stripped, <<"how", "do", "i">>)
            THEN LET rest == StripPrefix(stripped, <<"how", "do", "i">>)
                 IN  << <<"Methods", "for">> \o rest, <<"Ways", "to">> \o rest >>
            ELSE IF StartsWith(stripped, <<"how", "to">>)
            THEN LET rest == StripPrefix(stripped, <<"how", "to">>)
                 IN  << <<"Methods", "for">> \o rest, <<"Ways", "to">> \o rest >>
            ELSE IF StartsWith(stripped, <<"what", "is">>)
            THEN LET rest == StripPrefix(stripped, <<"what", "is">>)
                 IN  << <<"Definition", "of">> \o rest,
                        <<"Explanation", "of">> \o rest >>
            ELSE IF StartsWith(stripped, <<"what", "are">>)
            THEN LET rest == StripPrefix(stripped, <<"what", "are">>)
                 IN  << <<"Definition", "of">> \o rest,
                        <<"Explanation", "of">> \o rest >>
            ELSE IF StartsWith(stripped, <<"why">>)
            THEN LET rest == StripPrefix(stripped, <<"why">>)
                 IN  << <<"Reasons", "for">> \o rest, <<"Benefits", "of">> \o rest >>
            ELSE << query \o <<"training", "methods">>,
                    query \o <<"techniques", "and", "principles">> >>
        domain ==
            IF \A n \in 1..Len(stripped) : stripped[n] \notin DomainTerms
            THEN << query \o <<"in", "strength", "training">> >>
            ELSE <<>>
    IN  Take(rephrased \o domain, QUERY_EXPANSION_COUNT)

\* expandQuery when nothing throws: the original query, then what was pushed,
\* cut to QUERY_EXPANSION_COUNT + 1
expandQueryUncut(query, pushed) == <<query>> \o pushed

expandQuery(query, pushed) ==
    Take(<<query>> \o pushed, QUERY_EXPANSION_COUNT + 1)

\* expandQuery from its catch block
expandQueryFallback(query) ==
    <<query>> \o Take(generateRuleBasedVariations(query), QUERY_EXPANSION_COUNT)

-----------------------------------------------------------------------------
(* Reranking (reciprocalRankFusion, deduplicateResults, rerankResults).     *)
(* A fused score is a sum of fractions 1 / (k + rank + 1); it is held as    *)
(* its numerator over the product of (k + 1) .. (k + n), n the length of    *)
(* the longest list.  A reranked score is held in six-hundredths.           *)

RERANK_TOP_K == 8

\* DEDUPLICATION_THRESHOLD, in hundredths
DEDUPLICATION_THRESHOLD == 95

\* the default of the parameter k of reciprocalRankFusion
DefaultK == 60

\* rerank_score of a result that has none
NoScore == -1

RECURSIVE RrfScale(_, _)
RrfScale(k, n) == IF n = 0 THEN 1 ELSE (k + n) * RrfScale(k, n - 1)

RECURSIVE LongestList(_)
LongestList(lists) ==
    IF lists = <<>> THEN 0 ELSE Max(Len(Head(lists)), LongestList(Tail(lists)))

\* a fusion score that is the same at every rank
RrfScoreOfFirstRank(k, rank, n) == RrfScale(k, n) \div (k + 1)

\* 1 / (k + rank + 1) for the 0-based rank, over RrfScale(k, n)
RrfScore(k, rank, n) == RrfScale(k, n) \div (k + rank + 1)

\* the position of the entry of the score map with this id, 0 when it has none
ScoreMapIndex(scoreMap, id) ==
    IF \E n \in 1..Len(scoreMap) : scoreMap[n].result.id = id
    THEN CHOOSE n \in 1..Len(scoreMap) : scoreMap[n].result.id = id
    ELSE 0

\* the body of results.forEach for one result
ScoreMapAdd(scoreMap, result, rrfScore) ==
    LET n == ScoreMapIndex(scoreMap, result.id)
    IN  IF n # 0
        THEN [scoreMap EXCEPT ![n].score = @ + rrfScore]
        ELSE Append(scoreMap,
                    [ result |-> [result EXCEPT !.rerank_score = rrfScore],
                      score  |-> rrfScore ])

RECURSIVE FuseList(_, _, _, _, _)
FuseList(scoreMap, results, rank, k, n) ==
    IF rank >= Len(results) THEN scoreMap
    ELSE FuseList(ScoreMapAdd(scoreMap, results[rank + 1], RrfScore(k, rank, n)),
                  results, rank + 1, k, n)

RECURSIVE FuseLists(_, _, _, _)
FuseLists(scoreMap, lists, k, n) ==
    IF lists = <<>> THEN scoreMap
    ELSE FuseLists(FuseList(scoreMap, Head(lists), 0, k, n),
                   Tail(lists), k, n)

\* an entry of the score map put into a list in descending order of score,
\* behind the entries that compare equal: Array.prototype.sort is stable
RECURSIVE InsertByScore(_, _)
InsertByScore(sorted, e) ==
    IF sorted = <<>> THEN <<e>>
    ELSE IF Head(sorted).score >= e.score
         THEN <<Head(sorted)>> \o InsertByScore(Tail(sorted), e)
         ELSE <<e>> \o sorted

\* .sort((a, b) => b.score - a.score)
RECURSIVE SortByScore(_, _)
SortByScore(es, sorted) ==
    IF es = <<>> THEN sorted
    ELSE SortByScore(Tail(es), InsertByScore(sorted, Head(es)))

reciprocalRankFusion(lists, k) ==
    LET n        == LongestList(lists)
        scoreMap == FuseLists(<<>>, lists, k, n)
        sorted   == SortByScore(scoreMap, <<>>)
    IN  [i \in 1..Len(sorted) |->
            [sorted[i].result EXCEPT !.rerank_score = sorted[i].score]]

\* the tokens calculateTextSimilarity keeps: the words longer than 2
Tokens(words) == {w \in words : Len(w) > 2}

\* calculateTextSimilarity(text1, text2) >= threshold, the threshold in hundredths
TextSimilarityAtLeast(words1, words2, threshold) ==
    LET intersection == Tokens(words1) \cap Tokens(words2)
        union        == Tokens(words1) \cup Tokens(words2)
    IN  IF union = {} THEN 0 >= threshold
        ELSE 100 * Cardinality(intersection) >= threshold * Cardinality(union)

\* the two results are chunks of one file at the same or at adjacent positions
AdjacentChunks(current, candidate) ==
    /\ current.filename = candidate.filename
    /\ current.chunk_index # NoIndex
    /\ candidate.chunk_index # NoIndex
    /\ current.chunk_index - candidate.chunk_index \in {-1, 0, 1}

\* the inner loop of deduplicateResults for the result at i, from j on; last is
\* the entry at the end of deduplicated
RECURSIVE DedupInner(_, _, _, _, _, _)
DedupInner(results, i, j, seen, last, threshold) ==
    IF j > Len(results) THEN [seen |-> seen, last |-> last]
    ELSE IF j \in seen THEN DedupInner(results, i, j + 1, seen, last, threshold)
    ELSE IF /\ AdjacentChunks(results[i], results[j])
            /\ TextSimilarityAtLeast(results[i].words, results[j].words, threshold)
         THEN DedupInner(results, i, j + 1, seen \cup {j},
                         IF results[j].similarity > results[i].similarity
                         THEN results[j] ELSE last,
                         threshold)
         ELSE DedupInner(results, i, j + 1, seen, last, threshold)

RECURSIVE DedupOuter(_, _, _, _, _)
DedupOuter(results, i, seen, deduplicated, threshold) ==
    IF i > Len(results) THEN deduplicated
    ELSE IF i \in seen
    THEN DedupOuter(results, i + 1, seen, deduplicated, threshold)
    ELSE LET r == DedupInner(results, i, i + 1, seen \cup {i}, results[i], threshold)
         IN  DedupOuter(results, i + 1, r.seen, Append(deduplicated, r.last),
                        threshold)

deduplicateResults(results, threshold) ==
    DedupOuter(results, 1, {}, <<>>, threshold)

\* the number of query terms the chunk text includes
TermMatches(query, words) == Cardinality({n \in 1..Len(query) : query[n] \in words})

\* the score rerankResults gives a result, in six-hundredths:
\* similarity + (termMatches / queryTerms.length) * 0.1
\*            + max(0, 0.05 - chunk_index * 0.005) - (0.05 for a short chunk)
RerankScore(result, query) ==
    LET termBoost     == (60 * TermMatches(query, result.words)) \div Len(query)
        positionBoost == IF result.chunk_index # NoIndex
                         THEN Max(0, 30 - result.chunk_index * 3)
                         ELSE 0
        lengthPenalty == IF result.textLen < 200 THEN -30 ELSE 0
    IN  result.similarity + termBoost + positionBoost + lengthPenalty

Reranked(result, query) ==
    [result EXCEPT !.rerank_score = RerankScore(result, query),
                   !.similarity   = RerankScore(result, query)]

\* b.rerank_score || b.similarity
RerankKey(r) == IF r.rerank_score # 0 THEN r.rerank_score ELSE r.similarity

RECURSIVE InsertByRerankKey(_, _)
InsertByRerankKey(sorted, r) ==
    IF sorted = <<>> THEN <<r>>
    ELSE IF RerankKey(Head(sorted)) >= RerankKey(r)
         THEN <<Head(sorted)>> \o InsertByRerankKey(Tail(sorted), r)
         ELSE <<r>> \o sorted

RECURSIVE SortByRerankKey(_, _)
SortByRerankKey(rs, sorted) ==
    IF rs = <<>> THEN sorted
    ELSE SortByRerankKey(Tail(rs), InsertByRerankKey(sorted, Head(rs)))

rerankResults(results, query) ==
    LET reranked == [i \in 1..Len(results) |-> Reranked(results[i], query)]
    IN  Take(SortByRerankKey(reranked, <<>>), RERANK_TOP_K)

-----------------------------------------------------------------------------
(* searchSimilar with query expansion, fusion, deduplication and reranking  *)

INITIAL_RETRIEVAL_K == 20

EnhQueries ==
    { <<"how", "to", "squat">>, <<"why">>, <<"what", "is", "squat", "depth">>,
      <<"bench", "strength">> }

\* what parseQueryVariations makes of the text the provider generated
Generated ==
    { <<>>,
      << <<"squat", "technique", "basics">> >>,
      << <<"squat", "technique", "basics">>, <<"squatting", "safely">>,
         <<"squat", "depth", "guidelines">> >> }

\* the embedding of each variation puts it at its own distances to the rows:
\* a row carries its similarities to the query under each of these profiles
ScoreProfiles == {1, 2}

\* rows of the database: two adjacent chunks of one file with the same words,
\* and a short chunk far into another file
DocKinds ==
    { [ filename |-> "a.md", chunk_index |-> 0, textLen |-> 1800,
        words |-> {"squat", "depth"},
        rows |-> << [questionSims |-> <<2>>, contentSim |-> 2],
                    [questionSims |-> <<>>, contentSim |-> 1] >> ],
      [ filename |-> "a.md", chunk_index |-> 1, textLen |-> 1800,
        words |-> {"squat", "depth"},
        rows |-> << [questionSims |-> <<1>>, contentSim |-> 1],
                    [questionSims |-> <<2>>, contentSim |-> 2] >> ],
      [ filename |-> "b.md", chunk_index |-> 12, textLen |-> 150,
        words |-> {"bench", "press"},
        rows |-> << [questionSims |-> <<1>>, contentSim |-> 1],
                    [questionSims |-> <<>>, contentSim |-> 1] >> ] }

\* the hybrid score (twentieths) in six-hundredths
EnhSimilarity(row) == 30 * HybridScore(row)

\* searchWithQuery once the embedding of the variation is there
searchWithQuery(documents, profile, threshold) ==
    LET results ==
            [i \in 1..Len(documents) |->
                [ id          |-> i,
                  filename    |-> documents[i].filename,
                  chunk_index |-> documents[i].chunk_index,
                  textLen     |-> documents[i].textLen,
                  words       |-> documents[i].words,
                  similarity  |-> EnhSimilarity(documents[i].rows[profile]),
                  rerank_score |-> NoScore ]]
        sorted == SortDescending(results, <<>>)
    IN  Take(SelectSeq(sorted, LAMBDA r : r.similarity >= threshold),
             INITIAL_RETRIEVAL_K)

\* the stages of searchSimilar after the last variation was searched
FinalResults(sets, query, k) ==
    LET allResults   == reciprocalRankFusion(sets, DefaultK)
        dedupResults == IF Len(allResults) > 0
                        THEN deduplicateResults(allResults, DEDUPLICATION_THRESHOLD)
                        ELSE allResults
        finalResults == IF Len(dedupResults) > 0
                        THEN rerankResults(dedupResults, query)
                        ELSE dedupResults
    IN  Take(finalResults, k)

InitEnhanced ==
    /\ enhQuery \in EnhQueries
    /\ enhTopK \in {1, 8}
    /\ enhMinSimilarity \in {0, 120, 300}
    /\ providerType \in {"ai-sdk", "transformers"}
    /\ \E n \in 0..MaxEnhDocs : enhDocs \in [1..n -> DocKinds]
    /\ enhPc = "start"
    /\ variations = <<>>
    /\ resultSets = <<>>
    /\ enhResults = <<>>
    /\ enhRaised = "none"
    /\ CoreIdle
    /\ RetryIdle
    /\ IngestIdle
    /\ PureIdle

enhInputs == <<enhQuery, enhTopK, enhMinSimilarity, providerType, enhDocs>>

\* searchSimilar up to its first await on a provider: an empty database
\* returns at once; expandQuery with the local provider computes the
\* rule-based variations without a provider call
EnhStart ==
    /\ enhPc = "start"
    /\ IF Len(enhDocs) = 0
       THEN /\ enhPc' = "returned"
            /\ UNCHANGED variations
       ELSE IF providerType = "transformers"
       THEN /\ variations' = expandQuery(enhQuery,
                                         generateRuleBasedVariations(enhQuery))
            /\ enhPc' = "searching"
       ELSE /\ enhPc' = "expanding"
            /\ UNCHANGED variations
    /\ UNCHANGED <<enhInputs, resultSets, enhResults, enhRaised,
                   coreVars, retryVars, ingVars, pureVars>>

\* generateText resolves in expandQuery
ExpandResolves(generated) ==
    /\ enhPc = "expanding"
    /\ variations' = expandQuery(enhQuery, generated)
    /\ enhPc' = "searching"
    /\ UNCHANGED <<enhInputs, resultSets, enhResults, enhRaised,
                   coreVars, retryVars, ingVars, pureVars>>

\* generateText rejects in expandQuery: the catch block
ExpandRejects ==
    /\ enhPc = "expanding"
    /\ variations' = expandQueryFallback(enhQuery)
    /\ enhPc' = "searching"
    /\ UNCHANGED <<enhInputs, resultSets, enhResults, enhRaised,
                   coreVars, retryVars, ingVars, pureVars>>

\* the embedding of the next variation resolves: its results are pushed, and
\* after the last variation the lists are fused, deduplicated, reranked, cut
SearchResolves(profile) ==
    /\ enhPc = "searching"
    /\ LET sets == Append(resultSets,
                          searchWithQuery(enhDocs, profile, enhMinSimilarity))
       IN  /\ resultSets' = sets
           /\ IF Len(sets) = Len(variations)
              THEN /\ enhResults' = FinalResults(sets, enhQuery, enhTopK)
                   /\ enhPc' = "returned"
              ELSE UNCHANGED <<enhResults, enhPc>>
    /\ UNCHANGED <<enhInputs, variations, enhRaised, coreVars, retryVars, ingVars, pureVars>>

\* the embedding of the next variation rejects: searchSimilar throws
SearchRejects ==
    /\ enhPc = "searching"
    /\ enhRaised' = "EmbeddingError"
    /\ enhPc' = "thrown"
    /\ UNCHANGED <<enhInputs, variations, resultSets, enhResults,
                   coreVars, retryVars, ingVars, pureVars>>

NextEnhanced ==
    \/ EnhStart
    \/ \E generated \in Generated : ExpandResolves(generated)
    \/ ExpandRejects
    \/ \E profile \in ScoreProfiles : SearchResolves(profile)
    \/ SearchRejects

SpecEnhanced == InitEnhanced /\ [][NextEnhanced]_vars

\* C17: expandQuery never aborts the query: when the call of the generation
\* provider fails it returns the rule-based variations instead, and on every
\* path the original query is the first element of what it returns and at
\* most QUERY_EXPANSION_COUNT + 1 queries are returned.
C17_ExpandQueryNeverAborts ==
    /\ [](variations # <<>> =>
             /\ variations[1] = enhQuery
             /\ Len(variations) <= QUERY_EXPANSION_COUNT + 1)
    /\ [][enhPc = "expanding" =>
             /\ enhPc' = "searching"
             /\ enhRaised' = "none"
             /\ variations' # <<>>]_vars
    /\ [][ExpandRejects =>
             Tail(variations') = generateRuleBasedVariations(enhQuery)]_vars

\* the provider call failed and the query goes on with the original query and
\* two rule-based variations, which are none of the generated ones
C17_Witness ==
    /\ providerType = "ai-sdk"
    /\ enhPc = "searching"
    /\ Len(variations) = QUERY_EXPANSION_COUNT + 1
    /\ variations[1] = enhQuery
    /\ \A generated \in Generated : \A n \in 1..Len(generated) :
           variations[2] # generated[n]

\* C14: every result searchSimilar returns, in each variant of the pipeline,
\* the one that reranks after thresholding included, has a reported
\* similarity that is at least the caller's minSimilarity.
C14_ResultsMeetThreshold ==
    /\ enhPc = "returned" =>
           \A i \in 1..Len(enhResults) :
               enhResults[i].similarity >= enhMinSimilarity
    /\ (searched /\ pc # "thrown") =>
           \A i \in 1..Len(searchResults) :
               MeetsThreshold(searchResults[i], minSimilarity)

-----------------------------------------------------------------------------
(* Properties of the hybrid score *)

\* the largest of the similarities of the query to a row's stored question
\* embeddings, 0 for a row that stores none
IntentSimilarity(sims) ==
    IF sims = <<>> THEN 0
    ELSE CHOOSE m \in {sims[n] : n \in 1..Len(sims)} :
             \A n \in 1..Len(sims) : m >= sims[n]

\* C13: the score searchSimilar gives a candidate is its intent similarity
\* times QUESTION_WEIGHT plus its content similarity times CONTENT_WEIGHT,
\* the intent similarity being the largest similarity of the query to any
\* of the candidate's stored question embeddings, and 0 only for a candidate
\* that stores none.
C13_HybridScoreIsWeightedMaximum ==
    searched =>
        \A i \in 1..Len(searchResults) :
            LET doc == db[searchResults[i].id]
            IN  searchResults[i].similarity =
                    IntentSimilarity(doc.questionSims) * QUESTION_WEIGHT
                    + doc.contentSim * CONTENT_WEIGHT

-----------------------------------------------------------------------------
(* ingestDirectory (services/ingest.ts) *)

\* how ingestFile ends on a file: it returns a success result, it returns a
\* failure result (no text in the file, no chunk from the text), or something
\* thrown inside its try block is rethrown as an IngestionError
FileOutcomes == {"ingested", "noText", "noChunks", "IngestionError"}

\* the IngestResult ingestFile returns for the file at position i
IngestResult(i, outcome) ==
    [ file           |-> i,
      success        |-> outcome = "ingested",
      chunks_created |-> IF outcome = "ingested" THEN 1 ELSE 0 ]

InitIngest ==
    /\ \E n \in 0..MaxFiles : dirFiles \in [1..n -> FileOutcomes]
    /\ ingPc = "scanning"
    /\ ingResults = <<>>
    /\ attempted = {}
    /\ CoreIdle
    /\ RetryIdle
    /\ EnhIdle
    /\ PureIdle

\* the scan resolves: with no file the empty results are returned, otherwise
\* the loop starts
ScanResolves ==
    /\ ingPc = "scanning"
    /\ ingPc' = IF Len(dirFiles) = 0 THEN "returned" ELSE "looping"
    /\ UNCHANGED <<dirFiles, ingResults, attempted, coreVars, retryVars, enhVars, pureVars>>

\* the scan rejects (the directory cannot be read): the catch block returns
\* the results, which are empty
ScanRejects ==
    /\ ingPc = "scanning"
    /\ ingPc' = "returned"
    /\ UNCHANGED <<dirFiles, ingResults, attempted, coreVars, retryVars, enhVars, pureVars>>

\* one turn of the loop in which ingestFile returns: its result is pushed and
\* the loop goes to the next file, or the results are returned after the last
IngestFileReturns ==
    /\ ingPc = "looping"
    /\ LET i == Len(ingResults) + 1
       IN  /\ dirFiles[i] # "IngestionError"
           /\ attempted' = attempted \cup {i}
           /\ ingResults' = Append(ingResults, IngestResult(i, dirFiles[i]))
           /\ ingPc' = IF i = Len(dirFiles) THEN "returned" ELSE "looping"
    /\ UNCHANGED <<dirFiles, coreVars, retryVars, enhVars, pureVars>>

\* one turn of the loop in which ingestFile throws: the exception leaves the
\* loop for the catch block of ingestDirectory, which returns the results
IngestFileThrows ==
    /\ ingPc = "looping"
    /\ LET i == Len(ingResults) + 1
       IN  /\ dirFiles[i] = "IngestionError"
           /\ attempted' = attempted \cup {i}
    /\ ingPc' = "returned"
    /\ UNCHANGED <<dirFiles, ingResults, coreVars, retryVars, enhVars, pureVars>>

NextIngest ==
    \/ ScanResolves
    \/ ScanRejects
    \/ IngestFileReturns
    \/ IngestFileThrows

SpecIngest == InitIngest /\ [][NextIngest]_vars

\* C12: during directory ingestion a failure while ingesting one file (an
\* IngestionError from ingestFile) does not stop the batch: once the files of
\* the directory are found, each of them has been attempted by the time
\* ingestDirectory returns.
C12_BatchSurvivesFileFailure ==
    (ingPc = "returned" /\ attempted # {}) =>
        attempted = 1..Len(dirFiles)

-----------------------------------------------------------------------------
(* Chunking (utils/text.ts, services/ingest.ts).  A word is its length, a   *)
(* sentence the sequence of its words, a chunk its length.                  *)

CHUNK_SIZE == 1800

CHUNK_OVERLAP == 400

MIN_CHUNK_SIZE == 50

RECURSIVE Sum(_)
Sum(lengths) == IF lengths = <<>> THEN 0 ELSE Head(lengths) + Sum(Tail(lengths))

\* the length of the strings joined by a separator of sep characters
JoinedLength(lengths, sep) ==
    IF lengths = <<>> THEN 0 ELSE Sum(lengths) + sep * (Len(lengths) - 1)

\* words.slice(-n)
LastWords(words, n) == SubSeq(words, Max(1, Len(words) - n + 1), Len(words))

\* chunks.filter(chunk => chunk.length >= MIN_CHUNK_SIZE)
FilterSmall(chunks) == SelectSeq(chunks, LAMBDA c : c >= MIN_CHUNK_SIZE)

\* the loop of chunkText and its last push; currentChunk is held as its words
RECURSIVE ChunkWords(_, _, _)
ChunkWords(words, currentChunk, chunks) ==
    IF words = <<>>
    THEN IF JoinedLength(currentChunk, 1) > 0
         THEN Append(chunks, JoinedLength(currentChunk, 1))
         ELSE chunks
    ELSE LET word      == Head(words)
             testChunk == Append(currentChunk, word)
         IN  IF /\ JoinedLength(testChunk, 1) > CHUNK_SIZE
                /\ JoinedLength(currentChunk, 1) > 0
             THEN ChunkWords(Tail(words),
                             Append(LastWords(currentChunk, CHUNK_OVERLAP \div 10),
                                    word),
                             Append(chunks, JoinedLength(currentChunk, 1)))
             ELSE ChunkWords(Tail(words), testChunk, chunks)

chunkText(words) == FilterSmall(ChunkWords(words, <<>>, <<>>))

\* the loop that joins pieces with a separator while they fit CHUNK_SIZE, and
\* the last push (splitProseUnit joins sentences, semanticChunking units)
RECURSIVE JoinWhileFits(_, _, _, _)
JoinWhileFits(pieces, sep, currentChunk, chunks) ==
    IF pieces = <<>>
    THEN IF currentChunk > 0 THEN Append(chunks, currentChunk) ELSE chunks
    ELSE LET piece          == Head(pieces)
             candidateChunk == IF currentChunk > 0
                               THEN currentChunk + sep + piece
                               ELSE piece
         IN  IF candidateChunk > CHUNK_SIZE /\ currentChunk > 0
             THEN JoinWhileFits(Tail(pieces), sep, piece,
                                Append(chunks, currentChunk))
             ELSE JoinWhileFits(Tail(pieces), sep, candidateChunk, chunks)

SentenceLengths(sentences) ==
    [i \in 1..Len(sentences) |-> JoinedLength(sentences[i], 1)]

\* unit.content.length: the sentences of the unit, a space between them
UnitLength(unit) == JoinedLength(SentenceLengths(unit.sentences), 1)

\* text.length: the units, a blank line between them
TextLength(text) ==
    JoinedLength([i \in 1..Len(text) |-> UnitLength(text[i])], 2)

\* the units of the text that are at least MIN_CHUNK_SIZE long
detectSemanticUnits(text) ==
    SelectSeq(text, LAMBDA unit : UnitLength(unit) >= MIN_CHUNK_SIZE)

splitProseUnit(unit) ==
    IF UnitLength(unit) <= CHUNK_SIZE THEN <<UnitLength(unit)>>
    ELSE IF Len(unit.sentences) = 1 THEN chunkText(unit.sentences[1])
    ELSE FilterSmall(JoinWhileFits(SentenceLengths(unit.sentences), 1, 0, <<>>))

RECURSIVE ProcessUnits(_)
ProcessUnits(units) ==
    IF units = <<>> THEN <<>>
    ELSE LET unit == Head(units)
         IN  (IF unit.type # "prose" THEN <<UnitLength(unit)>>
              ELSE IF UnitLength(unit) > CHUNK_SIZE THEN splitProseUnit(unit)
              ELSE <<UnitLength(unit)>>)
             \o ProcessUnits(Tail(units))

\* semanticChunking of utils/text.ts
semanticChunking(text) ==
    IF TextLength(text) = 0 THEN <<>>
    ELSE LET units == detectSemanticUnits(text)
         IN  IF Len(units) = 0 THEN <<TextLength(text)>>
             ELSE IF Len(units) = 1 /\ UnitLength(units[1]) <= CHUNK_SIZE
             THEN <<UnitLength(units[1])>>
             ELSE FilterSmall(JoinWhileFits(ProcessUnits(units), 2, 0, <<>>))

\* the loop of semanticChunking of services/ingest.ts and its last push
RECURSIVE GroupSentences(_, _, _)
GroupSentences(sentences, currentChunk, chunks) ==
    IF sentences = <<>>
    THEN IF currentChunk > 0 THEN Append(chunks, currentChunk) ELSE chunks
    ELSE LET sentence       == Head(sentences)
             candidateChunk == currentChunk
                               + (IF currentChunk > 0 THEN 1 ELSE 0) + sentence
         IN  IF candidateChunk > CHUNK_SIZE
             THEN IF currentChunk > 0
                  THEN GroupSentences(Tail(sentences), sentence,
                                      Append(chunks, currentChunk))
                  ELSE GroupSentences(Tail(sentences), 0,
                                      Append(chunks, sentence))
             ELSE GroupSentences(Tail(sentences), candidateChunk, chunks)

\* semanticChunking of services/ingest.ts, on the sentences of the text
ingestSemanticChunking(sentences) ==
    IF Len(sentences) = 0 THEN <<>>
    ELSE IF Len(sentences) = 1 THEN <<JoinedLength(sentences, 1)>>
    ELSE FilterSmall(GroupSentences(sentences, 0, <<>>))

WordLengths == {3, 45, 900, 1900}

Sentences == { <<20>>, <<60>>, <<900, 950>> }

Units ==
    [ type      : {"prose", "code"},
      sentences : UNION {[1..n -> Sentences] : n \in 1..2} ]

\* sentence lengths for the chunker of services/ingest.ts
IngestSentences == {20, 60, 1850}

InitChunk ==
    /\ \/ \E n \in 0..MaxWords : \E words \in [1..n -> WordLengths] :
             callArgs = [fn |-> "chunkText", text |-> words]
       \/ \E n \in 0..MaxUnits : \E text \in [1..n -> Units] :
             callArgs = [fn |-> "semanticChunking", text |-> text]
       \/ \E n \in 1..MaxUnits : \E text \in [1..n -> IngestSentences] :
             callArgs = [fn |-> "ingestSemanticChunking", text |-> text]
    /\ callPc = "ready"
    /\ callResult = <<>>
    /\ CoreIdle
    /\ RetryIdle
    /\ IngestIdle
    /\ EnhIdle

ChunkText ==
    /\ callPc = "ready"
    /\ callArgs.fn = "chunkText"
    /\ callResult' = chunkText(callArgs.text)
    /\ callPc' = "returned"
    /\ UNCHANGED <<callArgs, coreVars, retryVars, ingVars, enhVars>>

SemanticChunking ==
    /\ callPc = "ready"
    /\ callArgs.fn = "semanticChunking"
    /\ callResult' = semanticChunking(callArgs.text)
    /\ callPc' = "returned"
    /\ UNCHANGED <<callArgs, coreVars, retryVars, ingVars, enhVars>>

IngestSemanticChunking ==
    /\ callPc = "ready"
    /\ callArgs.fn = "ingestSemanticChunking"
    /\ callResult' = ingestSemanticChunking(callArgs.text)
    /\ callPc' = "returned"
    /\ UNCHANGED <<callArgs, coreVars, retryVars, ingVars, enhVars>>

NextChunk == ChunkText \/ SemanticChunking \/ IngestSemanticChunking

SpecChunk == InitChunk /\ [][NextChunk]_vars

\* C15: every chunk returned by chunkText and by semanticChunking, for any
\* input text, is at least MIN_CHUNK_SIZE (50) characters long.
C15_ChunksAtLeastMinSize ==
    callPc = "returned" =>
        \A i \in 1..Len(callResult) : callResult[i] >= MIN_CHUNK_SIZE

-----------------------------------------------------------------------------
(* Vector serialization (utils/code.ts).  A number is held by the sign,     *)
(* the biased exponent and the 23 fraction bits of its float32 form, and by *)
(* rest, which is 1 when the number has further bits that float32 cannot    *)
(* hold.  A buffer is the sequence of its bytes.                            *)

\* the one NaN of JavaScript, in its float32 form 0x7FC00000
NaN == [sign |-> 0, exp |-> 255, frac |-> 4194304, rest |-> 0]

\* new Float32Array([x]): the number rounded to float32 (the further bits are
\* below half a unit in the last place and are dropped)
ToFloat32(x) == [x EXCEPT !.rest = 0]

\* the four bytes of a float32 in memory, least significant byte first
Float32Bytes(x) ==
    << x.frac % 256,
       (x.frac \div 256) % 256,
       (x.exp % 2) * 128 + x.frac \div 65536,
       x.sign * 128 + x.exp \div 2 >>

\* the number a Float32Array holds in four bytes
Float32FromBytes(b) ==
    LET sign == b[4] \div 128
        exp  == (b[4] % 128) * 2 + b[3] \div 128
        frac == (b[3] % 128) * 65536 + b[2] * 256 + b[1]
    IN  IF exp = 255 /\ frac # 0 THEN NaN
        ELSE [sign |-> sign, exp |-> exp, frac |-> frac, rest |-> 0]

\* the four bytes of a Uint32 in memory, least significant byte first
Uint32Bytes(n) ==
    << n % 256, (n \div 256) % 256, (n \div 65536) % 256, (n \div 16777216) % 256 >>

Uint32FromBytes(b) == b[1] + 256 * b[2] + 65536 * b[3] + 16777216 * b[4]

\* new Uint8Array(new Float32Array(vector).buffer)
RECURSIVE Float32ArrayBytes(_)
Float32ArrayBytes(vector) ==
    IF vector = <<>> THEN <<>>
    ELSE Float32Bytes(ToFloat32(Head(vector))) \o Float32ArrayBytes(Tail(vector))

\* Array.from(new Float32Array(buffer.buffer, byteOffset, length)), the
\* offset and the length counted from 0 and in elements of four bytes
Float32ArrayFrom(buffer, byteOffset, length) ==
    [i \in 1..length |->
        Float32FromBytes(SubSeq(buffer, byteOffset + 4 * i - 3, byteOffset + 4 * i))]

serializeVector(vector) == Float32ArrayBytes(vector)

deserializeVector(buffer) == Float32ArrayFrom(buffer, 0, Len(buffer) \div 4)

\* dataBuffer after the loop that copies vectors[i] to i * dim
RECURSIVE Flatten(_)
Flatten(vectors) ==
    IF vectors = <<>> THEN <<>> ELSE Head(vectors) \o Flatten(Tail(vectors))

serializeVectors(vectors) ==
    IF Len(vectors) = 0 THEN <<>>
    ELSE LET count == Len(vectors)
             dim   == Len(vectors[1])
         IN  Uint32Bytes(count) \o Uint32Bytes(dim)
             \o Float32ArrayBytes(Flatten(vectors))

\* deserializeVectors that reads the vector data from the start of the
\* buffer, over the two metadata words
deserializeVectorsNoOffset(buffer) ==
    IF Len(buffer) = 0 THEN <<>>
    ELSE LET count     == Uint32FromBytes(SubSeq(buffer, 1, 4))
             dim       == Uint32FromBytes(SubSeq(buffer, 5, 8))
             dataArray == Float32ArrayFrom(buffer, 0, count * dim)
         IN  [i \in 1..count |-> SubSeq(dataArray, (i - 1) * dim + 1, i * dim)]

deserializeVectors(buffer) ==
    IF Len(buffer) = 0 THEN <<>>
    ELSE LET count     == Uint32FromBytes(SubSeq(buffer, 1, 4))
             dim       == Uint32FromBytes(SubSeq(buffer, 5, 8))
             dataArray == Float32ArrayFrom(buffer, 8, count * dim)
         IN  [i \in 1..count |-> SubSeq(dataArray, (i - 1) * dim + 1, i * dim)]

\* 0, -0, 1, -1.5, the smallest subnormal, the largest finite float32,
\* Infinity, NaN, and 0.1, which float32 cannot hold
Numbers ==
    { [sign |-> 0, exp |-> 0,   frac |-> 0,       rest |-> 0],
      [sign |-> 1, exp |-> 0,   frac |-> 0,       rest |-> 0],
      [sign |-> 0, exp |-> 127, frac |-> 0,       rest |-> 0],
      [sign |-> 1, exp |-> 127, frac |-> 4194304, rest |-> 0],
      [sign |-> 0, exp |-> 0,   frac |-> 1,       rest |-> 0],
      [sign |-> 0, exp |-> 254, frac |-> 8388607, rest |-> 0],
      [sign |-> 0, exp |-> 255, frac |-> 0,       rest |-> 0],
      NaN,
      [sign |-> 0, exp |-> 123, frac |-> 5033164, rest |-> 1] }

\* the numbers the lists of vectors are made of: -1.5, the largest finite
\* float32, and 0.1
ListNumbers ==
    { [sign |-> 1, exp |-> 127, frac |-> 4194304, rest |-> 0],
      [sign |-> 0, exp |-> 254, frac |-> 8388607, rest |-> 0],
      [sign |-> 0, exp |-> 123, frac |-> 5033164, rest |-> 1] }

InitCode ==
    /\ \/ \E dim \in 0..MaxDim : \E v \in [1..dim -> Numbers] :
             callArgs = [fn |-> "serializeVector", value |-> v]
       \/ \E count \in 0..MaxCount : \E dim \in 0..MaxDim :
          \E vs \in [1..count -> [1..dim -> ListNumbers]] :
             callArgs = [fn |-> "serializeVectors", value |-> vs]
    /\ callPc = "ready"
    /\ callResult = <<>>
    /\ CoreIdle
    /\ RetryIdle
    /\ IngestIdle
    /\ EnhIdle

SerializeVector ==
    /\ callPc = "ready"
    /\ callArgs.fn = "serializeVector"
    /\ callResult' = serializeVector(callArgs.value)
    /\ callPc' = "serialized"
    /\ UNCHANGED <<callArgs, coreVars, retryVars, ingVars, enhVars>>

DeserializeVector ==
    /\ callPc = "serialized"
    /\ callArgs.fn = "serializeVector"
    /\ callResult' = deserializeVector(callResult)
    /\ callPc' = "deserialized"
    /\ UNCHANGED <<callArgs, coreVars, retryVars, ingVars, enhVars>>

SerializeVectors ==
    /\ callPc = "ready"
    /\ callArgs.fn = "serializeVectors"
    /\ callResult' = serializeVectors(callArgs.value)
    /\ callPc' = "serialized"
    /\ UNCHANGED <<callArgs, coreVars, retryVars, ingVars, enhVars>>

DeserializeVectors ==
    /\ callPc = "serialized"
    /\ callArgs.fn = "serializeVectors"
    /\ callResult' = deserializeVectors(callResult)
    /\ callPc' = "deserialized"
    /\ UNCHANGED <<callArgs, coreVars, retryVars, ingVars, enhVars>>

NextCode ==
    \/ SerializeVector
    \/ DeserializeVector
    \/ SerializeVectors
    \/ DeserializeVectors

SpecCode == InitCode /\ [][NextCode]_vars

\* every number of the vector is one float32 can hold
Float32Representable(vector) == \A i \in 1..Len(vector) : vector[i].rest = 0

\* C16: decoding inverts encoding: deserializeVector(serializeVector(v)) is v
\* for every vector v of numbers float32 can hold, and
\* deserializeVectors(serializeVectors(vs)) is vs for every list vs of such
\* vectors of one dimension, the empty list included.
C16_DecodingInvertsEncoding ==
    callPc = "deserialized" =>
        /\ (/\ callArgs.fn = "serializeVector"
            /\ Float32Representable(callArgs.value))
               => callResult = callArgs.value
        /\ (/\ callArgs.fn = "serializeVectors"
            /\ \A i \in 1..Len(callArgs.value) :
                   Float32Representable(callArgs.value[i]))
               => callResult = callArgs.value

\* a list of two vectors of two numbers each went through both functions
C16_Witness ==
    /\ callPc = "deserialized"
    /\ callArgs.fn = "serializeVectors"
    /\ Len(callArgs.value) = 2
    /\ Len(callArgs.value[1]) = 2
    /\ \A i \in 1..2 : Float32Representable(callArgs.value[i])
    /\ callResult = callArgs.value

-----------------------------------------------------------------------------
(* reciprocalRankFusion applied to bounded result lists *)

ResultIds == 1..4

\* the ids of the results of one list, in rank order: no id twice
IdLists ==
    UNION { {ids \in [1..n -> ResultIds] :
                \A i, j \in 1..n : ids[i] = ids[j] => i = j} : n \in 0..MaxListLen }

\* a result list as searchWithQuery returns it: the similarities descend
\* with the rank, so one row has its own similarity in each list
AsResultList(ids) ==
    [i \in 1..Len(ids) |->
        [id |-> ids[i], similarity |-> 400 - 100 * i, rerank_score |-> NoScore]]

FusionKs == {DefaultK}

InitFusion ==
    /\ \E n \in 0..MaxLists : \E idLists \in [1..n -> IdLists] : \E k \in FusionKs :
          callArgs = [ fn    |-> "reciprocalRankFusion",
                       lists |-> [l \in 1..n |-> AsResultList(idLists[l])],
                       k     |-> k ]
    /\ callPc = "ready"
    /\ callResult = <<>>
    /\ CoreIdle
    /\ RetryIdle
    /\ IngestIdle
    /\ EnhIdle

ReciprocalRankFusion ==
    /\ callPc = "ready"
    /\ callArgs.fn = "reciprocalRankFusion"
    /\ callResult' = reciprocalRankFusion(callArgs.lists, callArgs.k)
    /\ callPc' = "returned"
    /\ UNCHANGED <<callArgs, coreVars, retryVars, ingVars, enhVars>>

NextFusion == ReciprocalRankFusion

SpecFusion == InitFusion /\ [][NextFusion]_vars

\* the ids of the results of the lists
IdsOf(lists) == UNION { {lists[l][i].id : i \in 1..Len(lists[l])} : l \in 1..Len(lists) }

\* the 0-based rank of the id in the list, -1 when the list does not hold it
RankIn(list, id) ==
    IF \E i \in 1..Len(list) : list[i].id = id
    THEN (CHOOSE i \in 1..Len(list) : list[i].id = id) - 1
    ELSE -1

\* the sum, over the first l lists, of 1 / (k + rank + 1) for the lists that
\* hold the id and 0 for the others, as a numerator over RrfScale(k, n)
RECURSIVE FusedScore(_, _, _, _, _)
FusedScore(lists, l, id, k, n) ==
    IF l = 0 THEN 0
    ELSE FusedScore(lists, l - 1, id, k, n)
         + (IF RankIn(lists[l], id) >= 0
            THEN RrfScale(k, n) \div (k + RankIn(lists[l], id) + 1)
            ELSE 0)

\* the position of the id in the output, 0 when it is not there
PositionOf(out, id) ==
    IF \E i \in 1..Len(out) : out[i].id = id
    THEN CHOOSE i \in 1..Len(out) : out[i].id = id
    ELSE 0

\* the lists A B C and B A D, with 1, 2, 3, 4 for A, B, C, D
ExampleLists == << AsResultList(<<1, 2, 3>>), AsResultList(<<2, 1, 4>>) >>

\* C19: reciprocalRankFusion gives each id the sum, over the input lists
\* that hold it, of 1 / (k + rank + 1), returns each id once, in descending
\* order of that score; for the lists A B C and B A D with k = 60 both A and B
\* come before both C and D.
C19_FusedScoresAndOrder ==
    callPc = "returned" =>
        LET lists == callArgs.lists
            k     == callArgs.k
            n     == LongestList(lists)
            out   == callResult
        IN  /\ {out[i].id : i \in 1..Len(out)} = IdsOf(lists)
            /\ Len(out) = Cardinality(IdsOf(lists))
            /\ \A i \in 1..Len(out) :
                   out[i].rerank_score = FusedScore(lists, Len(lists), out[i].id, k, n)
            /\ \A i, j \in 1..Len(out) :
                   i < j => out[i].rerank_score >= out[j].rerank_score
            /\ (lists = ExampleLists /\ k = 60) =>
                   \A a \in {1, 2} : \A c \in {3, 4} :
                       PositionOf(out, a) < PositionOf(out, c)

\* the lists A B C and B A D were fused with k = 60
C19_Witness ==
    /\ callPc = "returned"
    /\ callArgs.lists = ExampleLists
    /\ callArgs.k = 60
    /\ Len(callResult) = 4

\* the lists in the order perm gives them
Permuted(lists, perm) == [l \in 1..Len(lists) |-> lists[perm[l]]]

\* the orders in which n lists can be supplied
ListOrders(n) == {perm \in [1..n -> 1..n] : \A i, j \in 1..n : perm[i] = perm[j] => i = j}

\* C20: reciprocalRankFusion does not depend on the order in which the input
\* lists are supplied: for every permutation of the same lists it returns
\* the same output list, the same ids in the same order with the same fused
\* scores and the same carried result fields.
C20_FusionIgnoresListOrder ==
    callPc = "returned" =>
        \A perm \in ListOrders(Len(callArgs.lists)) :
            reciprocalRankFusion(Permuted(callArgs.lists, perm), callArgs.k)
                = callResult

-----------------------------------------------------------------------------
(* deduplicateResults applied to bounded result lists *)

MaxDedup == 3

\* chunks as the fused list carries them: three neighbours of one file with
\* the same text, a neighbour with another text, the same text in another
\* file, and a row stored without a chunk index
DedupKinds ==
    { [filename |-> "a.md", chunk_index |-> 4, words |-> {"squat", "depth", "form"}],
      [filename |-> "a.md", chunk_index |-> 5, words |-> {"squat", "depth", "form"}],
      [filename |-> "a.md", chunk_index |-> 6, words |-> {"squat", "depth", "form"}],
      [filename |-> "a.md", chunk_index |-> 3, words |-> {"bench", "press", "grip"}],
      [filename |-> "b.md", chunk_index |-> 4, words |-> {"squat", "depth", "form"}],
      [filename |-> "c.md", chunk_index |-> NoIndex, words |-> {"squat", "depth", "form"}] }

\* similarities in hundredths
DedupSimilarities == {50, 70, 90}

AsDedupResult(i, kind, similarity) ==
    [ id          |-> i,
      filename    |-> kind.filename,
      chunk_index |-> kind.chunk_index,
      words       |-> kind.words,
      similarity  |-> similarity,
      rerank_score |-> NoScore ]

InitDedup ==
    /\ \E n \in 0..MaxDedup :
         \E kinds \in [1..n -> DedupKinds] :
           \E sims \in [1..n -> DedupSimilarities] :
              /\ \A i, j \in 1..n : kinds[i] = kinds[j] => i = j
              /\ callArgs = [ fn        |-> "deduplicateResults",
                              results   |-> [i \in 1..n |->
                                               AsDedupResult(i, kinds[i], sims[i])],
                              threshold |-> DEDUPLICATION_THRESHOLD ]
    /\ callPc = "ready"
    /\ callResult = <<>>
    /\ CoreIdle
    /\ RetryIdle
    /\ IngestIdle
    /\ EnhIdle

DeduplicateResults ==
    /\ callPc = "ready"
    /\ callArgs.fn = "deduplicateResults"
    /\ callResult' = deduplicateResults(callArgs.results, callArgs.threshold)
    /\ callPc' = "returned"
    /\ UNCHANGED <<callArgs, coreVars, retryVars, ingVars, enhVars>>

NextDedup == DeduplicateResults

SpecDedup == InitDedup /\ [][NextDedup]_vars

\* the groups deduplicateResults detects: for each result the outer loop
\* pushes, its index and the indexes the inner loop marks as its duplicates
RECURSIVE DedupGroups(_, _, _, _)
DedupGroups(results, i, seen, threshold) ==
    IF i > Len(results) THEN <<>>
    ELSE IF i \in seen THEN DedupGroups(results, i + 1, seen, threshold)
    ELSE LET r == DedupInner(results, i, i + 1, seen \cup {i}, results[i], threshold)
         IN  <<[head |-> i, members |-> r.seen \ seen]>>
                 \o DedupGroups(results, i + 1, r.seen, threshold)

\* C21: two results are treated as duplicates only if they are of one file,
\* at chunk positions at most 1 apart, with token Jaccard similarity at least
\* the threshold; and of every group detected as duplicates the one result
\* kept is the one with the highest similarity of the group.
C21_DedupKeepsHighestOfGroup ==
    (callPc = "returned" /\ callArgs.fn = "deduplicateResults") =>
        LET results == callArgs.results
            groups  == DedupGroups(results, 1, {}, callArgs.threshold)
        IN  /\ Len(callResult) = Len(groups)
            /\ \A g \in 1..Len(groups) :
                 LET head == results[groups[g].head]
                 IN  /\ \A j \in groups[g].members \ {groups[g].head} :
                            /\ results[j].filename = head.filename
                            /\ results[j].chunk_index - head.chunk_index \in {-1, 0, 1}
                            /\ TextSimilarityAtLeast(results[j].words, head.words,
                                                     callArgs.threshold)
                     /\ callResult[g] \in {results[j] : j \in groups[g].members}
                     /\ \A j \in groups[g].members :
                            callResult[g].similarity >= results[j].similarity

-----------------------------------------------------------------------------
(* Context assembly of the smart context builder: applyMMR,                 *)
(* expandWithAdjacentChunks and deduplicateContext                          *)

MaxMmr == 3

DEFAULT_TOP_K == 8

\* MMR_DIVERSITY_LAMBDA = 0.5, in tenths
MMR_DIVERSITY_LAMBDA == 5

\* calculateJaccardSimilarity, in hundredths
calculateJaccardSimilarity(words1, words2) ==
    LET intersection == Tokens(words1) \cap Tokens(words2)
        union        == Tokens(words1) \cup Tokens(words2)
    IN  IF Cardinality(union) = 0 THEN 0
        ELSE (100 * Cardinality(intersection)) \div Cardinality(union)

\* the maximum of the text similarities of the candidate to the selected
RECURSIVE MaxSimilarityTo(_, _, _)
MaxSimilarityTo(candidate, selected, maxSimilarity) ==
    IF selected = <<>> THEN maxSimilarity
    ELSE MaxSimilarityTo(candidate, Tail(selected),
            Max(maxSimilarity,
                calculateJaccardSimilarity(candidate.words, Head(selected).words)))

\* lambda * candidate.similarity + (1 - lambda) * diversity, in thousandths
MmrScore(candidate, selected) ==
    LET diversity == 100 - MaxSimilarityTo(candidate, selected, 0)
    IN  MMR_DIVERSITY_LAMBDA * candidate.similarity
            + (10 - MMR_DIVERSITY_LAMBDA) * diversity

\* -Infinity: below every score
NegInfinity == -1

\* the for loop over remaining: the index of the first candidate of the
\* highest score
RECURSIVE MmrScan(_, _, _, _, _)
MmrScan(remaining, selected, i, maxScore, maxIdx) ==
    IF i > Len(remaining) THEN maxIdx
    ELSE LET mmrScore == MmrScore(remaining[i], selected)
         IN  IF mmrScore > maxScore
             THEN MmrScan(remaining, selected, i + 1, mmrScore, i)
             ELSE MmrScan(remaining, selected, i + 1, maxScore, maxIdx)

\* remaining.splice(maxIdx, 1)
Splice(s, idx) == SubSeq(s, 1, idx - 1) \o SubSeq(s, idx + 1, Len(s))

RECURSIVE MmrLoop(_, _)
MmrLoop(selected, remaining) ==
    IF ~ (Len(remaining) > 0 /\ Len(selected) < DEFAULT_TOP_K) THEN selected
    ELSE LET maxIdx == MmrScan(remaining, selected, 1, NegInfinity, 1)
         IN  MmrLoop(Append(selected, remaining[maxIdx]), Splice(remaining, maxIdx))

applyMMR(results) ==
    IF Len(results) <= 1 THEN results
    ELSE MmrLoop(<<Head(results)>>, Tail(results))

\* chunk texts by their tokens: text similarities of 1, 1/2, 1/4 and 0
MmrTexts ==
    { {"squat", "depth"}, {"squat", "depth", "form", "stance"}, {"squat"},
      {"bench"} }

\* similarities in hundredths
MmrSimilarities == {25, 50, 75, 100}

\* the topK of the request; searchSimilar returns no more results than that
MmrTopKs == {3, DEFAULT_TOP_K, 10}

\* lengths of result lists beyond DEFAULT_TOP_K
LongLists == {9, 10}

\* the similarities of a long list, descending in blocks of three
LongSimilarity(i) == 100 - 25 * ((i - 1) \div 3)

AsMmrResult(i, words, similarity) ==
    [id |-> i, words |-> words, similarity |-> similarity]

\* searchSimilar returns its results in descending order of similarity
InitMMR ==
    /\ \/ \E n \in 0..MaxMmr : \E texts \in [1..n -> MmrTexts] :
            \E sims \in [1..n -> MmrSimilarities] :
            \E k \in MmrTopKs :
              /\ n <= k
              /\ \A i \in 1..(n - 1) : sims[i] >= sims[i + 1]
              /\ callArgs = [ fn      |-> "applyMMR",
                              results |-> [i \in 1..n |->
                                              AsMmrResult(i, texts[i], sims[i])],
                              topK    |-> k ]
       \/ \E n \in LongLists :
            \E texts \in [1..n -> {{"squat", "depth"}, {"bench"}}] :
            \E k \in MmrTopKs :
              /\ n <= k
              /\ callArgs = [ fn      |-> "applyMMR",
                              results |-> [i \in 1..n |->
                                  AsMmrResult(i, texts[i], LongSimilarity(i))],
                              topK    |-> k ]
    /\ callPc = "ready"
    /\ callResult = <<>>
    /\ CoreIdle
    /\ RetryIdle
    /\ IngestIdle
    /\ EnhIdle

ApplyMMR ==
    /\ callPc = "ready"
    /\ callArgs.fn = "applyMMR"
    /\ callResult' = applyMMR(callArgs.results)
    /\ callPc' = "returned"
    /\ UNCHANGED <<callArgs, coreVars, retryVars, ingVars, enhVars>>

NextMMR == ApplyMMR

SpecMMR == InitMMR /\ [][NextMMR]_vars

\* the position in the input of the result with the id
InputPosition(results, id) == CHOOSE i \in 1..Len(results) : results[i].id = id

\* the selection out is the greedy one the claim describes, of limit items
MmrSelection(results, out, limit) ==
    /\ Len(out) = Min(limit, Len(results))
    /\ \A n \in 1..Len(out) : \E i \in 1..Len(results) : out[n] = results[i]
    /\ \A m, n \in 1..Len(out) : out[m].id = out[n].id => m = n
    /\ Len(out) > 0 =>
          \A i \in 1..Len(results) : out[1].similarity >= results[i].similarity
    /\ \A n \in 2..Len(out) :
          LET selected == SubSeq(out, 1, n - 1)
              chosen   == {out[m].id : m \in 1..(n - 1)}
          IN  \A i \in 1..Len(results) :
                 results[i].id \notin chosen =>
                    \/ MmrScore(out[n], selected) > MmrScore(results[i], selected)
                    \/ /\ MmrScore(out[n], selected) = MmrScore(results[i], selected)
                       /\ InputPosition(results, out[n].id) <= i

\* C22: applyMMR selects the candidate of top relevance first, then again and
\* again the remaining candidate of the highest
\* lambda * relevance + (1 - lambda) * (1 - max Jaccard similarity to the
\* selected), the earliest winning ties, until the caller's topK items are
\* chosen or the candidates are exhausted; no candidate is output twice.
C22_MmrSelectsUpToCallersTopK ==
    (callPc = "returned" /\ callArgs.fn = "applyMMR") =>
        MmrSelection(callArgs.results, callResult, callArgs.topK)

-----------------------------------------------------------------------------
(* deduplicateContext applied to bounded result lists *)

MaxCtxItems == 3

\* the overlap at which deduplicateContext skips a chunk, 0.7, in hundredths
OverlapThreshold == 70

\* the for loop of deduplicateContext from results[i] on
RECURSIVE DedupContextLoop(_, _, _)
DedupContextLoop(results, i, deduplicated) ==
    IF i > Len(results) THEN deduplicated
    ELSE LET current    == results[i]
             previous   == deduplicated[Len(deduplicated)]
             similarity == calculateJaccardSimilarity(current.words, previous.words)
         IN  IF similarity < OverlapThreshold
             THEN DedupContextLoop(results, i + 1, Append(deduplicated, current))
             ELSE DedupContextLoop(results, i + 1, deduplicated)

deduplicateContext(results) ==
    IF Len(results) <= 1 THEN results
    ELSE DedupContextLoop(results, 2, <<results[1]>>)

\* chunk texts by their tokens; the overlaps of the first with the others are
\* 7/10, 9/10, 3/10 and 0
OverlapTexts ==
    { {"one", "two", "three", "four", "five", "six", "seven", "eight", "nine"},
      {"one", "two", "three", "four", "five", "six", "seven", "ten"},
      {"one", "two", "three", "four", "five", "six", "seven", "eight", "nine",
       "ten"},
      {"one", "two", "three", "eleven"},
      {"bench"} }

InitDedupContext ==
    /\ \E n \in 0..MaxCtxItems : \E texts \in [1..n -> OverlapTexts] :
          callArgs = [ fn      |-> "deduplicateContext",
                       results |-> [i \in 1..n |->
                                       [id |-> i, words |-> texts[i]]] ]
    /\ callPc = "ready"
    /\ callResult = <<>>
    /\ CoreIdle
    /\ RetryIdle
    /\ IngestIdle
    /\ EnhIdle

DeduplicateContext ==
    /\ callPc = "ready"
    /\ callArgs.fn = "deduplicateContext"
    /\ callResult' = deduplicateContext(callArgs.results)
    /\ callPc' = "returned"
    /\ UNCHANGED <<callArgs, coreVars, retryVars, ingVars, enhVars>>

NextDedupContext == DeduplicateContext

SpecDedupContext == InitDedupContext /\ [][NextDedupContext]_vars

\* the ids of the items kept
KeptIds(out) == {out[n].id : n \in 1..Len(out)}

\* the kept item immediately preceding the item at i of the input
PrecedingKept(results, out, i) ==
    LET before == {k \in KeptIds(out) : k < i}
    IN  results[CHOOSE k \in before : \A other \in before : other <= k]

\* C25: after deduplicateContext the first item is kept, no kept item has a
\* Jaccard similarity above the overlap threshold 0.7 to the kept item
\* immediately before it, and an item is dropped only when its similarity to
\* the immediately preceding kept item exceeds the threshold.
C25_DroppedOnlyAboveThreshold ==
    (callPc = "returned" /\ callArgs.fn = "deduplicateContext") =>
        LET results == callArgs.results
        IN  /\ Len(results) > 0 => (Len(callResult) > 0 /\ callResult[1] = results[1])
            /\ \A n \in 1..Len(callResult) : callResult[n] \in
                    {results[i] : i \in 1..Len(results)}
            /\ \A n \in 2..Len(callResult) :
                  /\ callResult[n - 1].id < callResult[n].id
                  /\ calculateJaccardSimilarity(callResult[n].words,
                                                callResult[n - 1].words)
                        <= OverlapThreshold
            /\ \A i \in 2..Len(results) :
                  i \notin KeptIds(callResult) =>
                     100 * Cardinality(results[i].words
                                 \cap PrecedingKept(results, callResult, i).words)
                       > OverlapThreshold
                           * Cardinality(results[i].words
                                 \cup PrecedingKept(results, callResult, i).words)

-----------------------------------------------------------------------------
(* expandWithAdjacentChunks over a stored set of chunks *)

MaxCandidates == 2

\* the documents table: three chunks of one file and two of another
ChunkDb ==
    << [id |-> 1, filename |-> "a.md", chunk_index |-> 0],
       [id |-> 2, filename |-> "a.md", chunk_index |-> 1],
       [id |-> 3, filename |-> "a.md", chunk_index |-> 2],
       [id |-> 4, filename |-> "b.md", chunk_index |-> 0],
       [id |-> 5, filename |-> "b.md", chunk_index |-> 1] >>

\* similarities in thousandths
CandidateSimilarities == {500, 800, 900}

RECURSIVE InsertByChunkIndex(_, _)
InsertByChunkIndex(sorted, row) ==
    IF sorted = <<>> THEN <<row>>
    ELSE IF Head(sorted).chunk_index <= row.chunk_index
         THEN <<Head(sorted)>> \o InsertByChunkIndex(Tail(sorted), row)
         ELSE <<row>> \o sorted

RECURSIVE OrderByChunkIndex(_, _)
OrderByChunkIndex(rows, sorted) ==
    IF rows = <<>> THEN sorted
    ELSE OrderByChunkIndex(Tail(rows), InsertByChunkIndex(sorted, Head(rows)))

\* WHERE filename = ? AND chunk_index >= ? AND chunk_index <= ? ORDER BY chunk_index
getAdjacentChunks(database, filename, chunk_index, before, after) ==
    OrderByChunkIndex(
        SelectSeq(database, LAMBDA row :
            /\ row.filename = filename
            /\ row.chunk_index >= chunk_index - before
            /\ row.chunk_index <= chunk_index + after),
        <<>>)

\* result.similarity * 0.9, in thousandths
Discounted(similarity) == (similarity * 9) \div 10

\* the for loop over the adjacent chunks of one result
RECURSIVE AddAdjacent(_, _, _)
AddAdjacent(adjacent, result, acc) ==
    IF adjacent = <<>> THEN acc
    ELSE LET chunk == Head(adjacent)
         IN  IF chunk.id \notin acc.seenIds
             THEN AddAdjacent(Tail(adjacent), result,
                     [ expanded |-> Append(acc.expanded,
                           [ id          |-> chunk.id,
                             filename    |-> chunk.filename,
                             chunk_index |-> chunk.chunk_index,
                             similarity  |-> IF chunk.id = result.id
                                             THEN result.similarity
                                             ELSE Discounted(result.similarity) ]),
                       seenIds  |-> acc.seenIds \cup {chunk.id} ])
             ELSE AddAdjacent(Tail(adjacent), result, acc)

\* the for loop over the results; !result.chunk_index holds of the index 0
RECURSIVE ExpandLoop(_, _, _)
ExpandLoop(database, results, acc) ==
    IF results = <<>> THEN acc.expanded
    ELSE LET result == Head(results)
         IN  IF result.chunk_index = 0
             THEN ExpandLoop(database, Tail(results),
                     [ expanded |-> Append(acc.expanded, result),
                       seenIds  |-> acc.seenIds \cup {result.id} ])
             ELSE ExpandLoop(database, Tail(results),
                     AddAdjacent(getAdjacentChunks(database, result.filename,
                                                   result.chunk_index, 1, 1),
                                 result, acc))

\* the comparator of expanded.sort
CompareExpanded(a, b) ==
    IF a.filename = b.filename
    THEN a.chunk_index - b.chunk_index
    ELSE b.similarity - a.similarity

\* the comparator orders these elements consistently: its "less than" and its
\* "equal" are both transitive
ConsistentComparator(es) ==
    \A i, j, k \in 1..Len(es) :
        /\ (CompareExpanded(es[i], es[j]) < 0 /\ CompareExpanded(es[j], es[k]) < 0)
              => CompareExpanded(es[i], es[k]) < 0
        /\ (CompareExpanded(es[i], es[j]) = 0 /\ CompareExpanded(es[j], es[k]) = 0)
              => CompareExpanded(es[i], es[k]) = 0

RECURSIVE InsertExpanded(_, _)
InsertExpanded(sorted, e) ==
    IF sorted = <<>> THEN <<e>>
    ELSE IF CompareExpanded(Head(sorted), e) <= 0
         THEN <<Head(sorted)>> \o InsertExpanded(Tail(sorted), e)
         ELSE <<e>> \o sorted

RECURSIVE StableSortExpanded(_, _)
StableSortExpanded(es, sorted) ==
    IF es = <<>> THEN sorted
    ELSE StableSortExpanded(Tail(es), InsertExpanded(sorted, Head(es)))

\* the orders of n elements
Orders(n) == {p \in [1..n -> 1..n] : \A i, j \in 1..n : p[i] = p[j] => i = j}

\* what Array.prototype.sort may leave: the stable sorted order under a
\* consistent comparator, an implementation-defined order otherwise
SortOutcomes(es) ==
    IF ConsistentComparator(es) THEN {StableSortExpanded(es, <<>>)}
    ELSE {[i \in 1..Len(es) |-> es[p[i]]] : p \in Orders(Len(es))}

expandWithAdjacentChunks(database, results) ==
    SortOutcomes(ExpandLoop(database, results, [expanded |-> <<>>, seenIds |-> {}]))

AsCandidate(row, similarity) ==
    [ id          |-> row.id,
      filename    |-> row.filename,
      chunk_index |-> row.chunk_index,
      similarity  |-> similarity ]

\* the candidates are distinct rows of the table, in any order
InitExpand ==
    /\ \E n \in 0..MaxCandidates :
         \E rows \in [1..n -> 1..Len(ChunkDb)] :
           \E sims \in [1..n -> CandidateSimilarities] :
              /\ \A i, j \in 1..n : rows[i] = rows[j] => i = j
              /\ callArgs = [ fn      |-> "expandWithAdjacentChunks",
                              db      |-> ChunkDb,
                              results |-> [i \in 1..n |->
                                              AsCandidate(ChunkDb[rows[i]], sims[i])] ]
    /\ callPc = "ready"
    /\ callResult = <<>>
    /\ CoreIdle
    /\ RetryIdle
    /\ IngestIdle
    /\ EnhIdle

ExpandWithAdjacentChunks ==
    /\ callPc = "ready"
    /\ callArgs.fn = "expandWithAdjacentChunks"
    /\ callResult' \in expandWithAdjacentChunks(callArgs.db, callArgs.results)
    /\ callPc' = "returned"
    /\ UNCHANGED <<callArgs, coreVars, retryVars, ingVars, enhVars>>

NextExpand == ExpandWithAdjacentChunks

SpecExpand == InitExpand /\ [][NextExpand]_vars

CandidateIds(results) == {results[i].id : i \in 1..Len(results)}

\* the stored chunk is at most one position from the candidate in its source
Neighbours(row, candidate) ==
    /\ row.filename = candidate.filename
    /\ row.chunk_index - candidate.chunk_index \in {-1, 0, 1}

\* C23: expandWithAdjacentChunks expands every candidate, at any position in
\* its source, with the stored chunks at the positions +-1 of the same source,
\* gives each chunk the expansion added 0.9 times the similarity of its anchor,
\* and never outputs the same chunk id twice.
C23_EveryCandidateExpanded ==
    (callPc = "returned" /\ callArgs.fn = "expandWithAdjacentChunks") =>
        LET results == callArgs.results
        IN  /\ \A i \in 1..Len(results) : \A d \in 1..Len(callArgs.db) :
                  Neighbours(callArgs.db[d], results[i]) =>
                     \E n \in 1..Len(callResult) : callResult[n].id = callArgs.db[d].id
            /\ \A n \in 1..Len(callResult) :
                  callResult[n].id \notin CandidateIds(results) =>
                     \E i \in 1..Len(results) :
                        /\ Neighbours(callResult[n], results[i])
                        /\ callResult[n].similarity = Discounted(results[i].similarity)
            /\ \A m, n \in 1..Len(callResult) :
                  callResult[m].id = callResult[n].id => m = n

\* C28: after expandWithAdjacentChunks every input candidate is in the output
\* exactly once and with its own similarity: the 0.9 discount is applied only
\* to chunks that were not among the input candidates, whatever the order of
\* the input.
C28_CandidatesKeepTheirSimilarity ==
    (callPc = "returned" /\ callArgs.fn = "expandWithAdjacentChunks") =>
        \A i \in 1..Len(callArgs.results) :
            /\ Cardinality({n \in 1..Len(callResult) :
                               callResult[n].id = callArgs.results[i].id}) = 1
            /\ \A n \in 1..Len(callResult) :
                  callResult[n].id = callArgs.results[i].id =>
                     callResult[n].similarity = callArgs.results[i].similarity

-----------------------------------------------------------------------------
(* The sizes of the encoded vectors *)

\* C24: serializeVectors of N vectors of dimension D returns exactly
\* 8 + 4 * N * D bytes for every N >= 0 and D >= 0, and serializeVector of a
\* vector of dimension D returns exactly 4 * D bytes.
C24_EncodedSizes ==
    callPc = "serialized" =>
        /\ callArgs.fn = "serializeVector" =>
              Len(callResult) = 4 * Len(callArgs.value)
        /\ callArgs.fn = "serializeVectors" =>
              LET N == Len(callArgs.value)
                  D == IF N = 0 THEN 0 ELSE Len(callArgs.value[1])
              IN  Len(callResult) = 8 + 4 * N * D

-----------------------------------------------------------------------------
(* The response stream of /ask/stream *)

\* the request body passes the handler's check of body.question
BodyValid == question.len > 0

\* the positions of the terminal events on the response stream
TerminalPositions == {i \in DOMAIN sse : IsTerminal(sse[i])}

\* C26: for every /ask/stream request that passes body validation, the SSE
\* stream the handler writes ends with exactly one terminal event (done or
\* error) and is then closed, whether streamQuestion finishes normally, yields
\* its own error event, or throws (a ValidationError before its first yield).
C26_ResponseEndsWithOneTerminal ==
    /\ []((mode = "stream" /\ BodyValid) =>
            /\ StreamOver => http = "closed"
            /\ http = "closed" =>
                  /\ sse # <<>>
                  /\ TerminalPositions = {Len(sse)}
            /\ http # "closed" => TerminalPositions = {})
    /\ [][http = "closed" => (sse' = sse /\ http' = "closed")]_vars

\* a request with a non-empty question and a topK of 101: streamQuestion threw
\* its ValidationError and the handler wrote the error event and closed
C26_Witness ==
    /\ mode = "stream"
    /\ BodyValid
    /\ pc = "thrown"
    /\ raised = "ValidationError"
    /\ sse = <<ErrorEvent("ValidationError")>>
    /\ http = "closed"

-----------------------------------------------------------------------------
(* The cache of generateEmbedding and the normalize flag *)

\* C29: the vector generateEmbedding(text, normalize) returns with caching
\* enabled depends only on the text, the normalize flag and the provider's
\* answer, not on the earlier calls: a call with normalize = false never
\* returns a vector that an earlier normalize = true call for the same text
\* normalized and cached, and the other way round.
C29_ReturnedAsAskedFor ==
    \A p \in Callers :
        (calls[p].pc = "returned" /\ calls[p].useCache) =>
            calls[p].normalized = calls[p].normalize

-----------------------------------------------------------------------------
(* insertDocument and clearDatabase on the two tables (db/schema.ts) *)

MaxInserts == 5

\* the database as initializeDatabase creates it
InitStore ==
    /\ documentsTable = {}
    /\ vecTable = {}
    /\ rowidSeq = 0
    /\ ServicesIdle
    /\ PipeIdle

\* result.lastInsertRowid of the INSERT INTO documents: AUTOINCREMENT never
\* gives an id a second time
NextRowid == rowidSeq + 1

\* insertDocument whose two INSERT statements both run
InsertDocument ==
    /\ rowidSeq < MaxInserts
    /\ rowidSeq' = NextRowid
    /\ documentsTable' = documentsTable \cup {NextRowid}
    /\ vecTable' = vecTable \cup {NextRowid}
    /\ UNCHANGED <<servicesVars, pipeVars>>

\* insertDocument whose INSERT INTO vec_embeddings throws (the vector is not of
\* the dimension of the vec0 column): the statement before it has run, and
\* nothing undoes it
InsertDocumentVecFails ==
    /\ rowidSeq < MaxInserts
    /\ rowidSeq' = NextRowid
    /\ documentsTable' = documentsTable \cup {NextRowid}
    /\ UNCHANGED <<vecTable, servicesVars, pipeVars>>

\* DELETE FROM documents; DELETE FROM vec_embeddings
ClearDatabase ==
    /\ documentsTable # {} \/ vecTable # {}
    /\ documentsTable' = {}
    /\ vecTable' = {}
    /\ UNCHANGED <<rowidSeq, servicesVars, pipeVars>>

NextStore ==
    \/ InsertDocument
    \/ InsertDocumentVecFails
    \/ ClearDatabase

SpecStore == InitStore /\ [][NextStore]_vars

\* C27: after any sequence of insertDocument and clearDatabase calls, an
\* insertDocument whose second (vec_embeddings) insert fails included, the set
\* of ids of the documents table equals the set of document_id values of
\* vec_embeddings.
C27_TablesAgree == documentsTable = vecTable

-----------------------------------------------------------------------------
(* The transformers pipeline of the embeddings module under concurrent calls *)

MaxLoads == 3

\* a fresh process, or a module reloaded with the pipeline of its predecessor
\* still in the global cache
InitPipeline ==
    /\ embeddingPipeline = FALSE
    /\ pipelineCache \in BOOLEAN
    /\ initCalls = [p \in Callers |-> [pc |-> "idle", via |-> "none"]]
    /\ loadsStarted = 0
    /\ ServicesIdle
    /\ StoreIdle

\* initializeEmbeddings() up to its await: it returns at once when the
\* pipeline or the global cache is set; otherwise initializePipeline calls
\* pipeline() and awaits it. after is where the caller goes on from when
\* initializeEmbeddings has returned.
initializeEmbeddings(p, via, after) ==
    IF embeddingPipeline \/ pipelineCache
    THEN /\ embeddingPipeline' = TRUE
         /\ initCalls' = [initCalls EXCEPT ![p] = [pc |-> after, via |-> via]]
         /\ UNCHANGED <<pipelineCache, loadsStarted>>
    ELSE /\ loadsStarted < MaxLoads
         /\ loadsStarted' = loadsStarted + 1
         /\ initCalls' = [initCalls EXCEPT ![p] = [pc |-> "loading", via |-> via]]
         /\ UNCHANGED <<embeddingPipeline, pipelineCache>>

\* a request calls initializeEmbeddings()
InitializeEmbeddings(p) ==
    /\ initCalls[p].pc = "idle"
    /\ initializeEmbeddings(p, "initializeEmbeddings", "returned")
    /\ UNCHANGED <<servicesVars, storeVars>>

\* a request calls generateEmbedding(text) on a text that is not cached: the
\* module is initialised when embeddingPipeline is not set, then the pipeline
\* is called on the text
GenerateEmbedding(p) ==
    /\ initCalls[p].pc = "idle"
    /\ IF ~ embeddingPipeline
       THEN initializeEmbeddings(p, "generateEmbedding", "embedding")
       ELSE /\ initCalls' = [initCalls EXCEPT ![p] =
                                [pc |-> "embedding", via |-> "generateEmbedding"]]
            /\ UNCHANGED <<embeddingPipeline, pipelineCache, loadsStarted>>
    /\ UNCHANGED <<servicesVars, storeVars>>

\* pipeline() resolves: initializePipeline sets the module variable and the
\* global cache, initializeEmbeddings returns
PipelineLoaded(p) ==
    /\ initCalls[p].pc = "loading"
    /\ embeddingPipeline' = TRUE
    /\ pipelineCache' = TRUE
    /\ initCalls' = [initCalls EXCEPT ![p].pc =
                        IF initCalls[p].via = "generateEmbedding"
                        THEN "embedding" ELSE "returned"]
    /\ UNCHANGED <<loadsStarted, servicesVars, storeVars>>

\* pipeline() rejects: initializeEmbeddings rejects, and generateEmbedding
\* wraps the error
PipelineLoadFails(p) ==
    /\ initCalls[p].pc = "loading"
    /\ initCalls' = [initCalls EXCEPT ![p].pc = "failed"]
    /\ UNCHANGED <<embeddingPipeline, pipelineCache, loadsStarted, servicesVars,
                   storeVars>>

\* the pipeline's answer on the text arrives and generateEmbedding returns
EmbeddingDone(p) ==
    /\ initCalls[p].pc = "embedding"
    /\ initCalls' = [initCalls EXCEPT ![p].pc = "returned"]
    /\ UNCHANGED <<embeddingPipeline, pipelineCache, loadsStarted, servicesVars,
                   storeVars>>

\* the call is over and the caller may call again
SettleInit(p) ==
    /\ initCalls[p].pc \in {"returned", "failed"}
    /\ initCalls' = [initCalls EXCEPT ![p] = [pc |-> "idle", via |-> "none"]]
    /\ UNCHANGED <<embeddingPipeline, pipelineCache, loadsStarted, servicesVars,
                   storeVars>>

NextPipeline ==
    \/ \E p \in Callers : InitializeEmbeddings(p)
    \/ \E p \in Callers : GenerateEmbedding(p)
    \/ \E p \in Callers : PipelineLoaded(p)
    \/ \E p \in Callers : PipelineLoadFails(p)
    \/ \E p \in Callers : EmbeddingDone(p)
    \/ \E p \in Callers : SettleInit(p)

SpecPipeline == InitPipeline /\ [][NextPipeline]_vars

\* the callers whose pipeline() call is still awaited
Loading == {p \in Callers : initCalls[p].pc = "loading"}

\* C30: when several requests call initializeEmbeddings (or generateEmbedding
\* on an uninitialised module) concurrently with the transformers provider, the
\* embedding pipeline is loaded at most once: no second load starts while a
\* first load is still awaited.
C30_AtMostOneLoadInFlight ==
    /\ [](Cardinality(Loading) <= 1)
    /\ [][loadsStarted' > loadsStarted => Loading = {}]_vars

=============================================================================
